---- MODULE Spec2Model ----
(***************************************************************************)
(* State-machine model of the GitHub crawler's API client layer            *)
(* (Crawl_data/graphql_client.py): the key pool (rotate_key), the quota    *)
(* snapshot (check_rate_limit), the retrying executor (execute_query), the  *)
(* paginator (paginate_query) and the REST client's get.                   *)
(*                                                                         *)
(* Python values are encoded as follows.  None is the string "None" where  *)
(* the other values are strings (cursors) and the integer NoneInt where    *)
(* the other values are integers (max_pages).  A JSON object is a record   *)
(* whose "...Field" members say whether a key is absent, null or present.  *)
(* List indices are 0-based as in the source: api_keys[i] of the source is *)
(* api_keys[i + 1] here.                                                   *)
(***************************************************************************)
EXTENDS Integers, Sequences, FiniteSets, TLC

\* ------------------------------------------------------------------------
\* Bounds of the model
\* ------------------------------------------------------------------------
\* largest key pool explored (pools of 1..MaxKeys keys)
MaxKeys == 3
\* explicit max_retries arguments explored: 0..MaxRetriesArg, plus the default
MaxRetriesArg == 2
\* finite max_pages arguments explored: 0..MaxPages; an unbounded pagination
\* is followed until MaxPages pages have been accumulated
MaxPages == 2
\* largest number of entries of one GraphQL "errors" list
MaxErrors == 2

\* largest number of rows of REPOS_CSV that is followed
MaxRows == 3
\* the page size of the REST page loops (per_page)
PerPage == 2
\* largest limit of get_top_repos; TOP_REPOS_COUNT is taken to be this
MaxLimit == 1

\* the failed writes of the checkpoint file followed in the calls of
\* get_top_repos and get_union_repos
MaxFailedWrites == 1

\* ------------------------------------------------------------------------
\* Program constants
\* ------------------------------------------------------------------------
\* config.py: RATE_LIMIT_THRESHOLD = 100
RATE_LIMIT_THRESHOLD == 100
\* execute_query(..., max_retries: int = 5)
DefaultMaxRetries == 5
\* execute_query: backoff_base = 2
backoff_base == 2
\* paginate_query: max_consecutive_failures = 3
max_consecutive_failures == 3
\* encoding of max_pages = None
NoneInt == -1

\* ------------------------------------------------------------------------
\* The environment: what the network can answer
\* ------------------------------------------------------------------------
\* page cursors: None, the empty string and two opaque tokens
Cursors == {"None", "", "X", "Y"}

\* Python truthiness of a cursor (`if cursor:`)
Truthy(c) == c \notin {"None", ""}

\* representative entries of a GraphQL errors list: [type, message]
ErrFORBIDDEN == [type |-> "FORBIDDEN", message |-> "Resource not accessible by integration"]
ErrPermission == [type |-> "UNAUTHORIZED", message |-> "You do not have Permission to view this"]
ErrRateLimit == [type |-> "RATE_LIMITED", message |-> "API rate limit exceeded"]
ErrTimeout == [type |-> "INTERNAL", message |-> "Timeout while resolving the query"]
ErrOther == [type |-> "NOT_FOUND", message |-> "Could not resolve to a User"]
ErrKinds == {ErrFORBIDDEN, ErrPermission, ErrRateLimit, ErrTimeout, ErrOther}

\* an errors list, up to order and repetition (the code only asks whether
\* some entry matches and whether the printed list contains a substring)
ErrorLists == {es \in SUBSET ErrKinds : Cardinality(es) <= MaxErrors}

\* 'FORBIDDEN' in str(err.get('type', ''))
TypeHasFORBIDDEN(err) == err.type \in {"FORBIDDEN"}
\* 'permission' in str(err.get('message', '')).lower()
MessageHasPermission(err) == err.message \in {"You do not have Permission to view this"}
\* 'rate limit' in str(err).lower(): "RATE_LIMITED" lower-cased is
\* "rate_limited", which does not contain 'rate limit'; the message does
ErrMentionsRateLimit(err) == err.message \in {"API rate limit exceeded"}
\* 'timeout' in str(err).lower()
ErrMentionsTimeout(err) == err.message \in {"Timeout while resolving the query"}

\* the "data" member of a response body, as far as paginate_query reads it:
\*   field: the key "data" is absent / null / an object
\*   nav:   what following page_info_path inside the object finds:
\*          key_missing   a key of the path is not in the object it is looked up in
\*          node_null     a key of the path is present with value null
\*          no_pageInfo   the path leads to an object without "pageInfo"
\*          pageInfo_null the path leads to an object whose "pageInfo" is null
\*          pageInfo      the path leads to an object with a "pageInfo" object
\*   hasNextPage: "true" / "false" / "absent";  endCursor: a cursor
NoPage(f, n) == [field |-> f, nav |-> n, hasNextPage |-> "absent", endCursor |-> "None"]

DataShapes ==
    {NoPage("absent", "none"), NoPage("null", "none")}
    \cup {NoPage("object", n) : n \in {"key_missing", "node_null", "no_pageInfo", "pageInfo_null"}}
    \cup [field : {"object"}, nav : {"pageInfo"},
          hasNextPage : {"true", "false", "absent"}, endCursor : Cursors]

\* a decoded response body that is a JSON object
EmptyErrors == {}

Bodies ==
    [errorsField : {"absent", "null"}, errors : {EmptyErrors}, data : DataShapes]
    \cup [errorsField : {"list"}, errors : ErrorLists, data : DataShapes]

NoBody == [errorsField |-> "absent", errors |-> EmptyErrors, data |-> NoPage("absent", "none")]

\* what session.post gives for a data request
\*   kind "raise":    the call raises exc
\*   kind "response": a response with status; for 200, json says whether
\*                    response.json() raises ("invalid"), gives null or an object
Statuses == {200, 401, 403, 404, 422, 500}

NetRaise(e) == [kind |-> "raise", exc |-> e, status |-> 0, json |-> "none", body |-> NoBody]

NetStatus(s) == [kind |-> "response", exc |-> "none", status |-> s, json |-> "none", body |-> NoBody]

Net200(j, b) == [kind |-> "response", exc |-> "none", status |-> 200, json |-> j, body |-> b]

\* no data request has been answered yet
NoNet == [kind |-> "none", exc |-> "none", status |-> 0, json |-> "none", body |-> NoBody]

\* the values random.randint(0, 10) can give (line 176); it is called for a
\* 5xx response only
Jitters == 0..10

JittersFor(o) == IF o.kind = "response" /\ o.status >= 500 THEN Jitters ELSE {0}

\* a query of paginate_query can be answered with any of the bodies; a single
\* query of client code asks for no page, so its data is absent, null or an
\* object without pageInfo
PlainBodies == {b \in Bodies : b.data.nav \in {"none", "no_pageInfo"}}

\* the answers to the user-details query of UserCrawler.get_user_details:
\* "data" absent, null or an object in which "user" is missing
\* ("key_missing"), null ("node_null"), an empty object ("user_empty") or
\* the user ("user"); without errors, with the NOT_FOUND error GitHub sends
\* for an unknown login, or with a FORBIDDEN error
DetailShapes ==
    {NoPage("absent", "none"), NoPage("null", "none")}
    \cup {NoPage("object", n) : n \in {"key_missing", "node_null", "user_empty", "user"}}

DetailBodies ==
    [errorsField : {"absent"}, errors : {EmptyErrors}, data : DetailShapes]
    \cup [errorsField : {"list"}, errors : {{ErrOther}, {ErrFORBIDDEN}}, data : DetailShapes]

\* the answers to the search query of RepositoryCrawler.get_top_repos:
\* "data" absent, null, an object without "search", or an object whose
\* search has edges and a pageInfo with hasNextPage and endCursor
SearchShapes ==
    {NoPage("absent", "none"), NoPage("null", "none"), NoPage("object", "key_missing")}
    \cup [field : {"object"}, nav : {"pageInfo"}, hasNextPage : {"true", "false"},
          endCursor : {"X"}]

SearchBodies == [errorsField : {"absent"}, errors : {EmptyErrors}, data : SearchShapes]

\* the answers to the page queries of a user crawl, and of a paginate_query
\* call whose execute_query calls are counted: pages without errors, with
\* the cursors None and "X"
UserPageBodies ==
    {b \in Bodies : b.errorsField = "absent" /\ b.data.endCursor \in {"None", "X"}}

NetOutcomes(caller) ==
    {NetRaise(e) : e \in {"Timeout", "ConnectionError", "OtherException"}}
    \cup {NetStatus(s) : s \in Statuses \ {200}}
    \cup {Net200("invalid", NoBody), Net200("null", NoBody)}
    \cup {Net200("object", b) : b \in (CASE caller = "paginate" -> Bodies
                                          [] caller \in {"user_paginate", "counted_paginate"}
                                               -> UserPageBodies
                                          [] caller \in {"details", "contributor",
                                                          "repo_details"}
                                               -> DetailBodies
                                          [] caller = "search" -> SearchBodies
                                          [] OTHER -> PlainBodies)}

\* the value execute_query returns: None or the decoded body
NoneResult == [none |-> TRUE, body |-> NoBody]

SomeResult(b) == [none |-> FALSE, body |-> b]

\* what session.post gives for the quota query of check_rate_limit
\*   shape "raise": the call raises;  "status": a non-200 response;
\*   the other shapes are 200 responses: the body is not JSON, is null, has
\*   no "data", has data null, has data without "rateLimit", has rateLimit
\*   null, or has a rateLimit object (with or without "remaining"/"limit",
\*   remaining an integer or null)
RemainingValues ==
    {0, RATE_LIMIT_THRESHOLD - 1, RATE_LIMIT_THRESHOLD, RATE_LIMIT_THRESHOLD + 1}

QuotaFail(sh) ==
    [shape |-> sh, has_remaining |-> FALSE, remaining_null |-> FALSE,
     remaining |-> 0, has_limit |-> FALSE]

\* no quota query has been answered
NoQuota == QuotaFail("none")

QuotaOutcomes ==
    {QuotaFail(sh) : sh \in {"raise", "status", "invalid_json", "json_null",
                             "no_data", "data_null", "no_rateLimit", "rateLimit_null"}}
    \cup [shape : {"rateLimit"}, has_remaining : {TRUE}, remaining_null : {FALSE},
          remaining : RemainingValues, has_limit : BOOLEAN]
    \cup {[shape |-> "rateLimit", has_remaining |-> FALSE, remaining_null |-> FALSE,
           remaining |-> 0, has_limit |-> TRUE],
          [shape |-> "rateLimit", has_remaining |-> TRUE, remaining_null |-> TRUE,
           remaining |-> 0, has_limit |-> TRUE]}

\* ------------------------------------------------------------------------
\* Pure parts of GitHubGraphQLClient
\* ------------------------------------------------------------------------
\* the conservative snapshot {'remaining': 0}
ZeroSnapshot == [remaining_null |-> FALSE, remaining |-> 0]

\* variant: the fallback snapshot reporting the full quota
check_rate_limit_optimistic(q) ==
    IF q.shape = "rateLimit" /\ q.has_remaining /\ q.has_limit
    THEN [remaining_null |-> q.remaining_null, remaining |-> q.remaining]
    ELSE [remaining_null |-> FALSE, remaining |-> RATE_LIMIT_THRESHOLD + 1]

\* check_rate_limit: the snapshot returned for a quota answer q.  Every
\* exception (the call, response.json(), a lookup in a null or incomplete
\* body, the log line that reads both 'remaining' and 'limit') is caught and
\* gives the conservative snapshot.
check_rate_limit(q) ==
    IF q.shape = "rateLimit" /\ q.has_remaining /\ q.has_limit
    THEN [remaining_null |-> q.remaining_null, remaining |-> q.remaining]
    ELSE ZeroSnapshot

\* variant: the increment without the modulo
rotate_key_no_wrap(idx, n) ==
    IF n <= 1 THEN [ok |-> FALSE, idx |-> idx]
    ELSE [ok |-> TRUE, idx |-> idx + 1]

\* variant: the single-key guard written as len(api_keys) < 1
rotate_key_single_pool_rotates(idx, n) ==
    IF n < 1 THEN [ok |-> FALSE, idx |-> idx]
    ELSE [ok |-> TRUE, idx |-> (idx + 1) % n]

\* rotate_key on a pool of n keys with active index idx: [ok, idx]
rotate_key(idx, n) ==
    IF n <= 1 THEN [ok |-> FALSE, idx |-> idx]
    ELSE [ok |-> TRUE, idx |-> (idx + 1) % n]

\* variant: the comparison written as <=
quota_low_inclusive(snapshot) == snapshot.remaining <= RATE_LIMIT_THRESHOLD

\* rate_limit.get('remaining', 0) < RATE_LIMIT_THRESHOLD
quota_low(snapshot) == snapshot.remaining < RATE_LIMIT_THRESHOLD

\* variant: all(...) in place of any(...)
has_forbidden_all(errors) == \A err \in errors : TypeHasFORBIDDEN(err)

\* has_forbidden of execute_query (line 129)
has_forbidden(errors) == \E err \in errors : TypeHasFORBIDDEN(err)

\* variant: all(...) in place of any(...)
has_permission_error_all(errors) == \A err \in errors : MessageHasPermission(err)

\* has_permission_error of execute_query (line 130)
has_permission_error(errors) == \E err \in errors : MessageHasPermission(err)

\* 'rate limit' in error_msg.lower() / 'timeout' in error_msg.lower()
mentions_rate_limit(errors) == \E err \in errors : ErrMentionsRateLimit(err)

mentions_timeout(errors) == \E err \in errors : ErrMentionsTimeout(err)

\* The effect of one pass through a part of the try block, as a record:
\*   act "proceed":  go on to the data request (quota gate only)
\*   act "return":   execute_query returns value
\*   act "continue": next loop iteration
\*   act "raise":    exception exc leaves the try body
\* idx and rc are the key index and retry_count after the pass; wait is the
\* backoff wait the pass performed (NoWait: none).
NoWait == [class |-> "none", secs |-> 0]

Eff(a, v, i, r, e) ==
    [act |-> a, value |-> v, idx |-> i, rc |-> r, exc |-> e, wait |-> NoWait]

\* the pass with effect eff slept secs seconds on its way; class names the
\* branch that slept:
\*   "quota"           rate_limit_wait(min(300, ...)): lines 103-104, 169-170
\*   "timeout_errors"  200 response whose errors mention 'timeout': line 149
\*   "server"          5xx response: lines 176-178
\*   "client_error"    any other status: line 185
\*   "timeout"         requests.exceptions.Timeout: lines 188-190
\*   "connection"      requests.exceptions.ConnectionError: lines 194-196
\*   "unexpected"      any other exception: line 202
\* (the one-second pause inside a successful rotate_key is not a backoff wait)
Waited(eff, cls, s) == [eff EXCEPT !.wait = [class |-> cls, secs |-> s]]

\* min(a, b)
Min(a, b) == IF a <= b THEN a ELSE b

\* wait_time = min(300, backoff_base ** retry_count) (lines 103, 169)
quota_wait(rc) == Min(300, backoff_base ^ rc)

\* variant: the jitter left out of the sum
server_wait_no_jitter(rc, jitter) == Min(60, backoff_base ^ rc)

\* wait_time = min(60, backoff_base ** retry_count + random.randint(0, 10)) (line 176)
server_wait(rc, jitter) == Min(60, backoff_base ^ rc + jitter)

\* wait_time = min(30, backoff_base ** retry_count) (lines 188, 194)
connection_wait(rc) == Min(30, backoff_base ^ rc)

\* time.sleep(backoff_base ** retry_count) after retry_count += 1, rc being
\* the count before the increment (lines 148-149, 184-185, 201-202)
uncapped_wait(rc) == backoff_base ^ (rc + 1)

\* the quota gate of the first attempt (lines 96-106)
QuotaGate(q, idx, n, rc) ==
    LET rate_limit == check_rate_limit(q) IN
    IF rate_limit.remaining_null
    THEN Eff("raise", NoneResult, idx, rc, "TypeError")
    ELSE IF quota_low(rate_limit)
         THEN LET r == rotate_key(idx, n) IN
              IF r.ok THEN Eff("proceed", NoneResult, r.idx, rc, "none")
              ELSE Waited(Eff("continue", NoneResult, idx, rc + 1, "none"),
                          "quota", quota_wait(rc))
         ELSE Eff("proceed", NoneResult, idx, rc, "none")

\* variant: the rate-limit and timeout tests made before the marker test
Handle200_markers_last(o, idx, n, rc) ==
    IF o.json = "invalid" THEN Eff("raise", NoneResult, idx, rc, "ValueError")
    ELSE IF o.json = "null" THEN Eff("raise", NoneResult, idx, rc, "TypeError")
    ELSE LET data == o.body IN
         IF data.errorsField = "absent" THEN Eff("return", SomeResult(data), idx, rc, "none")
         ELSE IF data.errorsField = "null" THEN Eff("raise", NoneResult, idx, rc, "TypeError")
         ELSE IF mentions_rate_limit(data.errors)
              THEN Eff("continue", NoneResult, rotate_key(idx, n).idx, rc + 1, "none")
              ELSE IF mentions_timeout(data.errors)
                   THEN Waited(Eff("continue", NoneResult, idx, rc + 1, "none"),
                               "timeout_errors", uncapped_wait(rc))
                   ELSE IF (has_forbidden(data.errors) \/ has_permission_error(data.errors))
                           /\ data.data.field = "absent"
                        THEN Eff("return", NoneResult, idx, rc, "none")
                        ELSE Eff("return", SomeResult(data), idx, rc, "none")

\* a 200 response (lines 122-152)
Handle200(o, idx, n, rc) ==
    IF o.json = "invalid" THEN Eff("raise", NoneResult, idx, rc, "ValueError")
    ELSE IF o.json = "null" THEN Eff("raise", NoneResult, idx, rc, "TypeError")
    ELSE LET data == o.body IN
         IF data.errorsField = "absent" THEN Eff("return", SomeResult(data), idx, rc, "none")
         ELSE IF data.errorsField = "null" THEN Eff("raise", NoneResult, idx, rc, "TypeError")
         ELSE IF has_forbidden(data.errors) \/ has_permission_error(data.errors)
              THEN IF data.data.field # "absent"
                   THEN Eff("return", SomeResult(data), idx, rc, "none")
                   ELSE Eff("return", NoneResult, idx, rc, "none")
              ELSE IF mentions_rate_limit(data.errors)
                   THEN Eff("continue", NoneResult, rotate_key(idx, n).idx, rc + 1, "none")
                   ELSE IF mentions_timeout(data.errors)
                        THEN Waited(Eff("continue", NoneResult, idx, rc + 1, "none"),
                                    "timeout_errors", uncapped_wait(rc))
                        ELSE Eff("return", SomeResult(data), idx, rc, "none")

\* variant: a 5xx answer rotates the key as well
Attempt_rotates_on_server_error(o, idx, n, rc, jitter) ==
    IF o.kind = "raise" THEN Eff("raise", NoneResult, idx, rc, o.exc)
    ELSE IF o.status = 200 THEN Handle200(o, idx, n, rc)
    ELSE IF o.status = 401
         THEN LET r == rotate_key(idx, n) IN
              IF r.ok THEN Eff("continue", NoneResult, r.idx, rc + 1, "none")
              ELSE Eff("return", NoneResult, idx, rc, "none")
    ELSE IF o.status = 403
         THEN LET r == rotate_key(idx, n) IN
              IF r.ok THEN Eff("continue", NoneResult, r.idx, rc + 1, "none")
              ELSE Waited(Eff("continue", NoneResult, idx, rc + 1, "none"),
                          "quota", quota_wait(rc))
    ELSE IF o.status >= 500
         THEN Waited(Eff("continue", NoneResult, rotate_key(idx, n).idx, rc + 1, "none"),
                     "server", server_wait(rc, jitter))
    ELSE Waited(Eff("continue", NoneResult, idx, rc + 1, "none"),
                "client_error", uncapped_wait(rc))

\* the data request and the classification of its outcome (lines 108-185);
\* jitter is the value random.randint(0, 10) gives
Attempt(o, idx, n, rc, jitter) ==
    IF o.kind = "raise" THEN Eff("raise", NoneResult, idx, rc, o.exc)
    ELSE IF o.status = 200 THEN Handle200(o, idx, n, rc)
    ELSE IF o.status = 401
         THEN LET r == rotate_key(idx, n) IN
              IF r.ok THEN Eff("continue", NoneResult, r.idx, rc + 1, "none")
              ELSE Eff("return", NoneResult, idx, rc, "none")
    ELSE IF o.status = 403
         THEN LET r == rotate_key(idx, n) IN
              IF r.ok THEN Eff("continue", NoneResult, r.idx, rc + 1, "none")
              ELSE Waited(Eff("continue", NoneResult, idx, rc + 1, "none"),
                          "quota", quota_wait(rc))
    ELSE IF o.status >= 500
         THEN Waited(Eff("continue", NoneResult, idx, rc + 1, "none"),
                     "server", server_wait(rc, jitter))
    ELSE Waited(Eff("continue", NoneResult, idx, rc + 1, "none"),
                "client_error", uncapped_wait(rc))

\* variant: the last clause catching only the exceptions of the requests library
ExceptClauseRequestsOnly(exc) ==
    IF exc = "Timeout" THEN "Timeout"
    ELSE IF exc = "ConnectionError" THEN "ConnectionError"
    ELSE IF exc = "OtherException" THEN "Exception"
    ELSE "none"

\* the except clause that takes an exception leaving the try body
\* (lines 187-202); "none" when no clause matches and it propagates
ExceptClause(exc) ==
    IF exc = "Timeout" THEN "Timeout"
    ELSE IF exc = "ConnectionError" THEN "ConnectionError"
    ELSE "Exception"

\* the sleep of the except clause that caught the exception, rc being
\* retry_count when it was raised (lines 188-190, 194-196, 201-202)
ExceptWait(clause, rc) ==
    IF clause = "Timeout" THEN [class |-> "timeout", secs |-> connection_wait(rc)]
    ELSE IF clause = "ConnectionError"
         THEN [class |-> "connection", secs |-> connection_wait(rc)]
         ELSE [class |-> "unexpected", secs |-> uncapped_wait(rc)]

\* try/except around a pass: a caught exception consumes one retry
TryExcept(eff) ==
    IF eff.act = "raise" /\ ExceptClause(eff.exc) # "none"
    THEN LET w == ExceptWait(ExceptClause(eff.exc), eff.rc) IN
         Waited(Eff("continue", NoneResult, eff.idx, eff.rc + 1, "none"), w.class, w.secs)
    ELSE eff

\* variant: the gate run on every attempt
first_attempt_always(rc) == rc >= 0

\* `if retry_count == 0` (line 96): the quota gate runs on the first attempt
first_attempt(rc) == rc = 0

\* variant: the loop condition written as <=
retry_allowed_inclusive(rc, mr) == rc <= mr

\* the loop condition of execute_query (line 93)
retry_allowed(rc, mr) == rc < mr

\* ------------------------------------------------------------------------
\* Pure parts of GitHubRESTClient
\* ------------------------------------------------------------------------
\* get(..., max_retries: int = 3)
RestDefaultMaxRetries == 3

\* representative response texts of a 403 answer
RestTexts ==
    {"API rate limit exceeded for user ID 1",
     "You have exceeded a secondary Rate Limit",
     "RATE LIMIT EXCEEDED",
     "Resource not accessible by integration",
     "Rate-limit policy does not apply",
     ""}

\* str.lower() on the response texts
Lower(text) ==
    CASE text = "API rate limit exceeded for user ID 1" -> "api rate limit exceeded for user id 1"
      [] text = "You have exceeded a secondary Rate Limit" -> "you have exceeded a secondary rate limit"
      [] text = "RATE LIMIT EXCEEDED" -> "rate limit exceeded"
      [] text = "Resource not accessible by integration" -> "resource not accessible by integration"
      [] text = "Rate-limit policy does not apply" -> "rate-limit policy does not apply"
      [] OTHER -> text

\* 'rate limit' in text, letter case respected
ContainsRateLimit(text) ==
    text \in {"API rate limit exceeded for user ID 1",
              "api rate limit exceeded for user id 1",
              "you have exceeded a secondary rate limit",
              "rate limit exceeded"}

\* variant: the test without .lower()
rest_is_rate_limit_case_sensitive(text) == ContainsRateLimit(text)

\* 'rate limit' in response.text.lower() (line 318)
rest_is_rate_limit(text) == ContainsRateLimit(Lower(text))

\* what session.get gives: the call raises exc, or a response with status,
\* text (read for a 403 only) and, for 200, json: whether response.json()
\* raises ("invalid"), gives null or gives another JSON value
RestRaise(e) == [kind |-> "raise", exc |-> e, status |-> 0, text |-> "", json |-> "none"]

RestResponse(st, t, j) == [kind |-> "response", exc |-> "none", status |-> st, text |-> t, json |-> j]

RestNoAnswer == [kind |-> "none", exc |-> "none", status |-> 0, text |-> "", json |-> "none"]

RestStatuses == {400, 401, 404, 422, 500, 503}

RestOutcomes ==
    {RestRaise(e) : e \in {"Timeout", "ConnectionError", "OtherException"}}
    \cup {RestResponse(st, "", "none") : st \in RestStatuses}
    \cup {RestResponse(403, t, "none") : t \in RestTexts}
    \cup {RestResponse(200, "", j) : j \in {"invalid", "null", "value"}}

\* The effect of one iteration of the loop of get, as a record:
\*   act "return": get returns value;  act "next": next iteration;
\*   act "raise":  exception exc leaves the try body
\* idx is the key index after the iteration.
RestEff(a, v, i, e) == [act |-> a, value |-> v, idx |-> i, exc |-> e]

\* variant: 404 handled by the final else branch
RestAttempt_404_logged(o, idx, n) ==
    IF o.kind = "raise" THEN RestEff("raise", "None", idx, o.exc)
    ELSE IF o.status = 200
         THEN IF o.json = "invalid" THEN RestEff("raise", "None", idx, "ValueError")
              ELSE RestEff("return", IF o.json = "null" THEN "None" ELSE "json", idx, "none")
    ELSE IF o.status = 401 THEN RestEff("next", "None", rotate_key(idx, n).idx, "none")
    ELSE IF o.status = 403
         THEN IF rest_is_rate_limit(o.text)
              THEN RestEff("next", "None", rotate_key(idx, n).idx, "none")
              ELSE RestEff("return", "None", idx, "none")
    ELSE RestEff("next", "None", idx, "none")

\* the request and the classification of its outcome (lines 304-332)
RestAttempt(o, idx, n) ==
    IF o.kind = "raise" THEN RestEff("raise", "None", idx, o.exc)
    ELSE IF o.status = 200
         THEN IF o.json = "invalid" THEN RestEff("raise", "None", idx, "ValueError")
              ELSE RestEff("return", IF o.json = "null" THEN "None" ELSE "json", idx, "none")
    ELSE IF o.status = 401 THEN RestEff("next", "None", rotate_key(idx, n).idx, "none")
    ELSE IF o.status = 403
         THEN IF rest_is_rate_limit(o.text)
              THEN RestEff("next", "None", rotate_key(idx, n).idx, "none")
              ELSE RestEff("return", "None", idx, "none")
    ELSE IF o.status = 404 THEN RestEff("return", "None", idx, "none")
    ELSE IF o.status >= 500 THEN RestEff("next", "None", idx, "none")
    ELSE RestEff("next", "None", idx, "none")

\* the except clause of get that takes an exception (lines 334-339):
\* Timeout, or Exception for every other one
RestExceptClause(exc) == IF exc = "Timeout" THEN "Timeout" ELSE "Exception"

\* try/except around an iteration: a caught exception ends the iteration
RestTryExcept(eff) ==
    IF eff.act = "raise" /\ RestExceptClause(eff.exc) # "none"
    THEN RestEff("next", "None", eff.idx, "none")
    ELSE eff

\* variant: one iteration more
rest_retry_allowed_inclusive(retry, mr) == retry <= mr

\* `for retry in range(max_retries)`: another iteration follows
rest_retry_allowed(retry, mr) == retry < mr

\* ------------------------------------------------------------------------
\* utils.py: JSON files behind CheckpointManager and ProcessedDataTracker
\* ------------------------------------------------------------------------
\* how one `with open(file, 'w') ...: json.dump(...)` ends: written in full,
\* open raised (the file is left as it was), json.dump raised after the
\* file was truncated
WriteOutcomes == {"ok", "open_failed", "dump_failed"}

\* the file after a write of text that ended as outcome: a file is a record
\* of its state ("missing": no such file, "corrupt": left truncated by a
\* failed json.dump, "json": a complete JSON text) and its text
file_after_write(file, text, outcome) ==
    CASE outcome = "ok" -> [state |-> "json", text |-> text]
      [] outcome = "open_failed" -> file
      [] OTHER -> [file EXCEPT !.state = "corrupt"]

\* the checkpoint keys and the values client code stores under them (lists
\* and strings, as the crawlers store)
CkKeys == {"union_repos", "steps_completed"}

CkValues == {[py |-> "list", v |-> 1], [py |-> "list", v |-> 2], [py |-> "str", v |-> 1]}

\* the empty dict
EmptyDict == [k \in {} |-> 0]

\* the dicts over the checkpoint keys
CkDicts == UNION {[ks -> CkValues] : ks \in SUBSET CkKeys}

\* json.dump of a value: a list or a tuple becomes an array, a str a string
json_encode(value) ==
    [json |-> CASE value.py \in {"list", "tuple"} -> "array"
                [] value.py = "str" -> "string"
                [] OTHER -> "null",
     v |-> value.v]

\* json.load of a value: an array becomes a list, a string a str
json_decode(j) ==
    [py |-> CASE j.json = "array" -> "list"
              [] j.json = "string" -> "str"
              [] OTHER -> "None",
     v |-> j.v]

\* json.dump(dict): the text of an object with the dict's members
json_dump(d) == [k \in DOMAIN d |-> json_encode(d[k])]

\* json.load of such a text
json_load(text) == [k \in DOMAIN text |-> json_decode(text[k])]

\* dict.update
dict_update(d, data) ==
    [k \in (DOMAIN d) \cup (DOMAIN data) |-> IF k \in DOMAIN data THEN data[k] ELSE d[k]]

\* the CheckpointManager instances of one run on CHECKPOINT_FILE: the one of
\* RepositoryCrawler and the one of UserCrawler
Managers == {"repos", "users"}

\* ------------------------------------------------------------------------
\* Pure parts of the REST page loops (crawl_repos.py, crawl_collaborations.py)
\* ------------------------------------------------------------------------
\* an item of a contributors page: its contributions are above MIN_COMMITS
\* ("many") or not ("few")
ItemKinds == {"many", "few"}

\* the pages a request for page number p can be answered with: a list of up
\* to per_page items; the listing ends, so that page MaxPages is not full
PagesAt(p) ==
    UNION {[1..n -> ItemKinds] : n \in 0..(IF p < MaxPages THEN PerPage ELSE PerPage - 1)}

\* the lengths of these pages
PageLengthsAt(p) == 0..(IF p < MaxPages THEN PerPage ELSE PerPage - 1)

\* the number of items of a page with contributions > MIN_COMMITS
RECURSIVE eligible(_)
eligible(items) ==
    IF items = <<>> THEN 0
    ELSE (IF Head(items) = "many" THEN 1 ELSE 0) + eligible(Tail(items))

\* what a fetched page is to the loop: `not result` (None or an empty list),
\* len(result) < per_page, or a full page
page_class(absent, len) ==
    IF absent THEN "absent"
    ELSE IF len = 0 THEN "empty"
    ELSE IF len < PerPage THEN "short" ELSE "full"

\* the three counting loops of get_user_repo_contributions_rest, in order
CountKinds == {"commits", "pulls", "issues"}

next_count(kind) == IF kind = "commits" THEN "pulls" ELSE "issues"

NoCounts == [k \in CountKinds |-> 0]

\* get_repo_contributors, lines 387-413: what the answer to the user query
\* of a contributor leads to: the entry built from the user ("user"), the
\* fallback entry built from the REST item ("fallback"), or an exception
\* raised by user_result['data']['user'] ("raise")
contributor_class(raised, result) ==
    IF raised THEN "raise"
    ELSE IF result.none \/ result.body.data.field = "absent" THEN "fallback"
    ELSE IF result.body.data.field = "null" THEN "raise"
    ELSE IF result.body.data.nav = "key_missing" THEN "raise"
    ELSE IF result.body.data.nav = "user" THEN "user"
    ELSE "fallback"

\* the checkpoint key of a repository's contributors, f"contributors_{id}"
ContribKey == "contributors_R1"

\* a list of n entries as a checkpoint value
py_list_of(n) == [py |-> "list", v |-> n]

\* variant: a list of one entry is not taken
cached_usable_long(value) == value.py = "list" /\ value.v > 1

\* `cached and isinstance(cached, list)`: a non-empty list
cached_usable(value) == value.py = "list" /\ value.v > 0

\* ------------------------------------------------------------------------
\* Pure parts of get_top_repos and get_union_repos (crawl_repos.py)
\* ------------------------------------------------------------------------
SortKeys == {"stars", "forks"}

\* checkpoint_keys of get_top_repos, in the order they are tried
TopKeys(sort_by) ==
    IF sort_by = "stars"
    THEN <<"stars_repos_with_details", "stars_repos_detailed", "stars_repos">>
    ELSE <<"forks_repos_with_details", "forks_repos_detailed", "forks_repos">>

\* the values of no keys
NoEntry == <<[py |-> "None", v |-> 0], [py |-> "None", v |-> 0], [py |-> "None", v |-> 0]>>

\* the first of the values that is a non-empty list, 0 if there is none
first_cached(values) ==
    IF \E i \in DOMAIN values : cached_usable(values[i])
    THEN CHOOSE i \in DOMAIN values :
           /\ cached_usable(values[i])
           /\ \A j \in DOMAIN values : cached_usable(values[j]) => i <= j
    ELSE 0

\* batch_size = max(5, batch_size // 2)
halve_batch(batch_size) == IF batch_size \div 2 > 5 THEN batch_size \div 2 ELSE 5

min2(a, b) == IF a < b THEN a ELSE b

\* an edge of a search page: a repository with isPrivate false ("public"),
\* or one that is private or has no isPrivate ("private")
EdgeLists(first) == UNION {[1..n -> {"public", "private"}] : n \in 0..first}

RECURSIVE publics(_)
publics(edges) ==
    IF edges = <<>> THEN 0
    ELSE (IF Head(edges) = "public" THEN 1 ELSE 0) + publics(Tail(edges))

\* lines 174-211: what the result of the search query is to the loop: no
\* result or no 'data' ("absent"), a page ("page"), or a result whose
\* navigation raises ("error")
search_class(raised, result) ==
    IF raised THEN "error"
    ELSE IF result.none \/ result.body.data.field = "absent" THEN "absent"
    ELSE IF result.body.data.nav = "pageInfo" THEN "page"
    ELSE "error"

\* lines 227-235: the navigation of the details result raises
details_raise(raised, result) ==
    \/ raised
    \/ (~result.none /\ result.body.data.field = "null")
    \/ (~result.none /\ result.body.data.field = "object"
        /\ result.body.data.nav = "key_missing")

\* the keys f"repo_processed_{id}" of the checkpoint
RepoProcessedKeys == {"repo_processed_R1"}

\* the checkpoint file before the first write
CkFileMissing == [state |-> "missing", text |-> EmptyDict]

\* CheckpointManager.load_checkpoint: {} for a missing or unreadable file
load_checkpoint(file) ==
    IF file.state = "json" THEN json_load(file.text) ELSE EmptyDict

\* CheckpointManager.get(key, default)
PyNone == [py |-> "None", v |-> 0]

ck_get(d, key, default) == IF key \in DOMAIN d THEN d[key] ELSE default

\* CheckpointManager.save_checkpoint(data): the dict in memory and the file
\* afterwards
save_checkpoint_data_only(d, file, data, outcome) ==
    [data |-> dict_update(d, data),
     file |-> file_after_write(file, json_dump(data), outcome)]

save_checkpoint(d, file, data, outcome) ==
    LET merged == dict_update(d, data) IN
    [data |-> merged,
     file |-> file_after_write(file, json_dump(merged), outcome)]

\* CheckpointManager.set(key, value)
ck_set(d, file, key, value, outcome) ==
    LET stored == [k \in (DOMAIN d) \cup {key} |-> IF k = key THEN value ELSE d[k]] IN
    save_checkpoint(stored, file, stored, outcome)

\* ------------------------------------------------------------------------
\* utils.py: ProcessedDataTracker
\* ------------------------------------------------------------------------
\* set(a list)
py_set(list) == {list[i] : i \in DOMAIN list}

\* list(a set): its members once each, in an order that varies with the run
\* (the hash seed of the process); the lists it can give
py_list(items) ==
    {order \in [1..Cardinality(items) -> items] : py_set(order) = items}

\* the tracker file before the first write
TrackerFileMissing == [state |-> "missing", text |-> <<>>]

\* ProcessedDataTracker.load_processed: set() for a missing or unreadable file
load_processed(file) ==
    IF file.state = "json" THEN py_set(file.text) ELSE {}

\* ProcessedDataTracker.save_processed: the file afterwards, order being the
\* list that list(self.processed_items) gave
save_processed(items, file, order, outcome) == file_after_write(file, order, outcome)

\* ProcessedDataTracker.is_processed
is_processed(items, item_id) == item_id \in items

\* `if item_id:` for a str
truthy_id(item_id) == item_id # ""

\* ProcessedDataTracker.mark_processed: the set in memory and the file
\* afterwards, order being one of py_list(items \cup {item_id})
mark_processed(items, file, item_id, order, outcome) ==
    IF truthy_id(item_id)
    THEN [items |-> items \cup {item_id},
          file |-> save_processed(items \cup {item_id}, file, order, outcome)]
    ELSE [items |-> items, file |-> file]

\* ------------------------------------------------------------------------
\* crawl_repos.py: save_repos_to_csv
\* ------------------------------------------------------------------------
\* repo.get('id', ''): '' stands for a repository without id
RepoIds == {"", "R1", "R2"}

\* the repositories handed to save_repos_to_csv: the id, whether
\* nameWithOwner is 'recovered/repo', and whether the extraction of the
\* row's fields raises (a member of an unexpected type)
Repos == [id : RepoIds, recovered : BOOLEAN, malformed : BOOLEAN]

\* the repository lists of one call
RepoLists == {<<>>} \cup {<<r>> : r \in Repos} \cup {<<r1, r2>> : r1 \in Repos, r2 \in Repos}

\* valid_repos: the list without the recovered entries
RECURSIVE valid_repos(_)
valid_repos(repos) ==
    IF repos = <<>> THEN <<>>
    ELSE IF Head(repos).recovered THEN valid_repos(Tail(repos))
         ELSE <<Head(repos)>> \o valid_repos(Tail(repos))

\* the rows of REPOS_CSV: for each repo_id the number of rows written
NoRows == [id \in RepoIds |-> 0]

RECURSIVE SumRows(_, _)
SumRows(rows, ids) ==
    IF ids = {} THEN 0
    ELSE LET id == CHOOSE id \in ids : TRUE IN rows[id] + SumRows(rows, ids \ {id})

\* ------------------------------------------------------------------------
\* crawl_users.py: UserCrawler
\* ------------------------------------------------------------------------
\* the logins handed to get_user_details
Logins == {"octocat"}

\* the three paginated lists of get_user_details, in the order they are
\* fetched: all_followers, all_following, starred_repos
\* the spelling under which the server keeps a login (logins are resolved
\* without regard to case)
stored_spelling(login) == IF login = "octocat" THEN "OCTOCAT" ELSE login

\* user_data.get('login') for the user object of an answer: the login asked
\* for, its stored spelling, '' or None (the member is null or missing)
AnswerLogins(login) == {login, stored_spelling(login), "", "None"}

\* `if login:` of save_user_data (line 332)
login_truthy(login) == login \notin {"", "None"}

UserLists == {"followers", "following", "starred"}

next_list(l) ==
    CASE l = "followers" -> "following"
      [] l = "following" -> "starred"
      [] OTHER -> "none"

\* no list has been fetched
NoLists == [l \in UserLists |-> "pending"]

\* lines 184-192 of get_user_details: the value execute_query returned, or
\* the exception that came out of it, gives no user. `result.get('data',
\* {}).get('user')` raises AttributeError for a null "data", which the outer
\* except turns into None
user_absent_none_only(raised, result) == raised \/ result.none

user_absent(raised, result) ==
    \/ raised
    \/ result.none
    \/ result.body.data.field \in {"absent", "null"}
    \/ result.body.data.nav \in {"key_missing", "node_null", "user_empty"}

\* what the details query gave, for the observations: "raised" (an exception
\* came out of execute_query), "None", "no_data", "data_null", or what "user"
\* is inside the data object
detail_class(raised, result) ==
    CASE raised -> "raised"
      [] ~raised /\ result.none -> "None"
      [] ~raised /\ ~result.none /\ result.body.data.field = "absent" -> "no_data"
      [] ~raised /\ ~result.none /\ result.body.data.field = "null" -> "data_null"
      [] OTHER -> result.body.data.nav

\* how a paginate_query call of get_user_followers, get_user_following or
\* get_user_starred_repos ended: "complete" (the loop ended by its
\* condition), "cut" (the circuit breaker stopped it and the pages so far
\* were returned), "raised" (an exception came out of it and the method's
\* except clause kept the empty list)
list_outcome(pc) ==
    CASE pc = "done" -> "complete"
      [] pc = "aborted" -> "cut"
      [] OTHER -> "raised"

\* ------------------------------------------------------------------------
\* State
\* ------------------------------------------------------------------------
VARIABLES
    \* GitHubGraphQLClient: the key pool and the active index
    api_keys, current_key_index,
    \* GitHubRESTClient (built on the same key list): its own active index.
    \* RepositoryCrawler and CollaborationCrawler each make a REST client of
    \* their own: rest_client is the crawler whose client was in use last
    \* ("repos" or "collab"), rest_current_key_index the index of that client
    \* and rest_other_key_index the index of the other crawler's client
    rest_current_key_index, rest_client, rest_other_key_index,
    \* the run of consecutive direct rotate_key calls on the GraphQL client:
    \* index before the run, calls made, whether all returned True
    rot_start, rot_calls, rot_ok,
    \* execute_query frame: position, caller, locals, returned value
    eqPc, eqCaller, retry_count, max_retries, eqRet,
    \* observations of the running execute_query call: data requests sent,
    \* quota snapshots taken, the first snapshot, the key index on entry and
    \* the key index the first data request was sent with (-1: none yet)
    \* and the exception most recently caught inside the call ("none": none);
    \* last_net is the answer to the latest data request, last_wait the wait
    \* of the latest pass through the loop body, sent_key the key index the
    \* latest data request was sent with
    requests, snapshots, first_snapshot, entry_key, first_key, last_exc,
    last_net, last_wait, sent_key,
    \* the answer to the quota query of the call (NoQuota: none yet)
    first_quota,
    \* paginate_query frame: position and locals; variables_after is
    \* variables['after'] of the caller's dict; all_results holds, for each
    \* appended response, its "data" member
    pgPc, max_pages, has_next, cursor, variables_after, page_count,
    consecutive_failures, all_results,
    \* observations of the running paginate_query call: the 'after' each
    \* appended page was requested with, the 'after' of the latest fetch, the
    \* number of fetches while all were usable (-1 after an unusable one), the
    \* current run of unusable fetches with the same 'after', the number of
    \* pages held when that run began, and the number of times a usable
    \* fetch ended a run of unusable ones
    page_after, sent_after, clean_fetches, fail_run, run_base, resets,
    \* and, for a paginate_query call whose execute_query calls are counted,
    \* their number (-1: the calls are not counted)
    pg_calls,
    \* GitHubRESTClient.get frame: position, the loop variable retry (the
    \* number of iterations completed), max_retries, the returned value
    \* ("None" or "json": a decoded JSON value other than null)
    restPc, rest_retry, rest_max_retries, rest_ret,
    \* observations of a get call made by client code (restCaller = "caller";
    \* "crawler": the call is made by a crawler): requests sent, the answer to
    \* the latest request and the key index it was sent with (-1: none yet)
    restCaller, rest_requests, rest_last, rest_sent_key,
    \* CheckpointManager: checkpoint_data of the manager in use and the
    \* content of the checkpoint file
    checkpoint_data, checkpoint_file,
    \* observations of the manager in use: its latest operation and how the
    \* write of that operation ended, and the value last stored under each
    \* key through set or save_checkpoint
    ck_op, ck_last,
    \* RepositoryCrawler: processed_items of its ProcessedDataTracker, the
    \* tracker's file and the rows of REPOS_CSV (rows per repo_id)
    processed_repos, processed_repos_file, repos_csv,
    \* save_repos_to_csv frame: position and the part of valid_repos still to
    \* be handled
    srPc, sr_todo,
    \* observations: whether a write of the tracker's file has failed so far,
    \* whether the tracker in use was constructed on an existing file, and the
    \* ids the running call skipped as already processed
    repos_save_failed, repos_reloaded, sr_skipped,
    \* the ids write_row has been called with so far, and the ids whose
    \* iteration was interrupted between write_row and mark_processed
    repos_attempted, repos_cut,
    \* two CheckpointManager instances on checkpoint_file, the one of
    \* RepositoryCrawler (checkpoint_data) and the one of UserCrawler
    \* (managers_data["users"]): the last value set for each key through
    \* either of them, and whether a write of the file has failed
    managers_data, managers_last, managers_failed,
    \* the REST page loops of get_repo_contributors and of
    \* get_user_repo_contributions_rest: where the function is (plPc), which
    \* loop runs (plKind), page, len(result) and the items of result not yet
    \* looked at, the length of the list or the count built so far, the counts
    \* of the loops that are over, and what the function returned
    plPc, plKind, pl_page, pl_len, pl_items, pl_total, cc_counts, pl_ret,
    \* observations of the running loop: the page numbers requested, the
    \* number of items of the fetched pages that are to be counted, what the
    \* last fetched page was, whether a page was requested after a last page
    pl_asked, pl_eligible, pl_last, pl_after_short,
    \* get_top_repos: where the call is (gtPc), sort_by, remaining, batch_size,
    \* variables['first'] and variables['after'], len(repos), the repositories
    \* the details loop has still to go through, len(detailed_repos) and the
    \* returned list
    gtPc, gt_sort, gt_remaining, gt_batch_size, gt_first, gt_after, gt_repos, gt_todo,
    gt_detailed, gt_ret,
    \* observations of the call: the values of its three checkpoint keys at
    \* entry, whether it has made a request, whether every execute_query call
    \* of its search loop has returned None so far
    gt_entry, gt_requested, gt_all_none,
    \* get_union_repos: where the call is (guPc), the returned list, and
    \* observations of the call: the value of 'union_repos' at entry, whether
    \* the call has made a request, whether it has written the checkpoint
    guPc, gu_ret, gu_entry, gu_requested, gu_wrote,
    \* the writes of the checkpoint file by these two that have failed so far
    top_failed_writes,
    \* UserCrawler: processed_items of its ProcessedDataTracker and the
    \* tracker's file
    processed_users, processed_users_file,
    \* get_user_details / save_user_data: position, the login, the value
    \* get_user_details returned ("None" or "user"), and for each paginated
    \* list how its pagination ended ("pending": not run), and
    \* user_data.get('login') of the returned user ("None": no value)
    ucPc, uc_login, uc_ret, uc_lists, uc_user_login,
    \* observations of the latest get_user_details / save_user_data pair:
    \* whether the details query was sent, what it gave ("none": not over),
    \* whether save_user_data called mark_processed, and the pages the
    \* paginations that were cut had collected
    uc_fetched, uc_detail, uc_marked, uc_cut_pages

keyVars == <<api_keys, current_key_index>>

rotVars == <<rot_start, rot_calls, rot_ok>>

eqVars == <<eqPc, eqCaller, retry_count, max_retries, eqRet>>

eqObs == <<requests, snapshots, first_snapshot, entry_key, first_key, last_exc,
           last_net, last_wait, sent_key, first_quota>>

pgVars == <<pgPc, max_pages, has_next, cursor, variables_after, page_count,
            consecutive_failures, all_results>>

pgObs == <<page_after, sent_after, clean_fetches, fail_run, run_base, resets, pg_calls>>

restVars == <<restPc, rest_retry, rest_max_retries, rest_ret, rest_requests,
              rest_last, rest_sent_key, restCaller>>

ckVars == <<checkpoint_data, checkpoint_file, ck_op, ck_last>>

trVars == <<processed_repos, processed_repos_file, repos_csv, srPc, sr_todo,
            repos_save_failed, repos_reloaded, sr_skipped, repos_attempted, repos_cut>>

ucVars == <<processed_users, processed_users_file, ucPc, uc_login, uc_ret, uc_lists,
            uc_user_login, uc_fetched, uc_detail, uc_marked, uc_cut_pages>>

mgrVars == <<managers_data, managers_last, managers_failed>>

plVars == <<plPc, plKind, pl_page, pl_len, pl_items, pl_total, cc_counts, pl_ret,
            pl_asked, pl_eligible, pl_last, pl_after_short>>

gtVars == <<gtPc, gt_sort, gt_remaining, gt_batch_size, gt_first, gt_after, gt_repos, gt_todo,
            gt_detailed, gt_ret, gt_entry, gt_requested, gt_all_none>>

guVars == <<guPc, gu_ret, gu_entry, gu_requested, gu_wrote, top_failed_writes>>

crawlVars == <<mgrVars, plVars, gtVars, guVars>>

storeVars == <<ckVars, trVars, ucVars, crawlVars>>

restKeyVars == <<rest_current_key_index, rest_client, rest_other_key_index>>

vars == <<keyVars, restKeyVars, rotVars, eqVars, eqObs, pgVars, pgObs,
          restVars, storeVars>>

\* current_key property: the active key
current_key == api_keys[current_key_index + 1]

\* ------------------------------------------------------------------------
\* Initial state: both clients constructed on a non-empty key list
\* ------------------------------------------------------------------------
Init ==
    /\ api_keys \in {[i \in 1..n |-> i] : n \in 1..MaxKeys}
    /\ current_key_index = 0
    /\ rest_current_key_index = 0 /\ rest_client = "repos" /\ rest_other_key_index = 0
    /\ rot_start = 0 /\ rot_calls = 0 /\ rot_ok = TRUE
    /\ eqPc = "idle" /\ eqCaller = "none" /\ retry_count = 0
    /\ max_retries = DefaultMaxRetries /\ eqRet = NoneResult
    /\ requests = 0 /\ snapshots = 0 /\ first_snapshot = ZeroSnapshot
    /\ entry_key = 0 /\ first_key = -1 /\ last_exc = "none"
    /\ last_net = NoNet /\ last_wait = NoWait /\ sent_key = -1
    /\ first_quota = NoQuota
    /\ pgPc = "idle" /\ max_pages = NoneInt /\ has_next = TRUE /\ cursor = "None"
    /\ variables_after = "None" /\ page_count = 0 /\ consecutive_failures = 0
    /\ all_results = <<>>
    /\ page_after = <<>> /\ sent_after = "None" /\ clean_fetches = 0
    /\ fail_run = 0 /\ run_base = 0 /\ resets = 0 /\ pg_calls = -1
    /\ restPc = "idle" /\ rest_retry = 0 /\ rest_max_retries = RestDefaultMaxRetries
    /\ rest_ret = "None" /\ rest_requests = 0 /\ rest_last = RestNoAnswer
    /\ rest_sent_key = -1 /\ restCaller = "none"
    /\ checkpoint_file = CkFileMissing
    /\ checkpoint_data = load_checkpoint(checkpoint_file)
    /\ ck_op = [op |-> "init", write |-> "none"] /\ ck_last = EmptyDict
    /\ processed_repos_file = TrackerFileMissing
    /\ processed_repos = load_processed(processed_repos_file)
    /\ repos_csv = NoRows /\ srPc = "idle" /\ sr_todo = <<>>
    /\ repos_save_failed = FALSE /\ repos_reloaded = FALSE /\ sr_skipped = {}
    /\ repos_attempted = {} /\ repos_cut = {}
    /\ managers_data = [m \in Managers \ {"repos"} |-> load_checkpoint(checkpoint_file)]
    /\ managers_last = EmptyDict /\ managers_failed = FALSE
    /\ plPc = "idle" /\ plKind = "none" /\ pl_page = 1 /\ pl_len = 0 /\ pl_items = <<>>
    /\ pl_total = 0 /\ cc_counts = NoCounts /\ pl_ret = "None"
    /\ pl_asked = <<>> /\ pl_eligible = 0 /\ pl_last = "none" /\ pl_after_short = FALSE
    /\ gtPc = "idle" /\ gt_sort = "stars" /\ gt_remaining = 0 /\ gt_batch_size = 20
    /\ gt_first = 0 /\ gt_after = "None" /\ gt_repos = 0 /\ gt_todo = 0
    /\ gt_detailed = 0 /\ gt_ret = PyNone /\ gt_entry = NoEntry
    /\ gt_requested = FALSE /\ gt_all_none = TRUE
    /\ guPc = "idle" /\ gu_ret = PyNone /\ gu_entry = PyNone
    /\ gu_requested = FALSE /\ gu_wrote = FALSE /\ top_failed_writes = 0
    /\ processed_users_file = TrackerFileMissing
    /\ processed_users = load_processed(processed_users_file)
    /\ ucPc = "idle" /\ uc_login = "" /\ uc_ret = "None" /\ uc_lists = NoLists
    /\ uc_user_login = "None"
    /\ uc_fetched = FALSE /\ uc_detail = "none" /\ uc_marked = FALSE
    /\ uc_cut_pages = 0

\* current_key_index of the REST client of crawler c
rest_index_of(c) ==
    IF rest_client = c THEN rest_current_key_index ELSE rest_other_key_index

\* a function of crawler c is called: its self.rest_client is the client in
\* use from here on
UseRestClient(c) ==
    /\ rest_client' = c
    /\ rest_current_key_index' = rest_index_of(c)
    /\ rest_other_key_index' =
         IF rest_client = c THEN rest_other_key_index ELSE rest_current_key_index

\* self.rest_client = GitHubRESTClient(client.api_keys) in the __init__ of
\* crawler c (crawl_repos.py line 19, crawl_collaborations.py line 19): a
\* new client, its current_key_index 0
NewRestClient(c) ==
    /\ rest_client' = c
    /\ rest_current_key_index' = 0
    /\ rest_other_key_index' =
         IF rest_client = c THEN rest_other_key_index ELSE rest_current_key_index

\* no call is running on the REST client
RestIdle == restPc \in {"idle", "done", "raised"}

\* no call is running on the GraphQL client
ClientIdle == eqPc \in {"idle", "done", "raised"} /\ pgPc \in {"idle", "done", "aborted", "raised"}

\* ------------------------------------------------------------------------
\* rotate_key called directly
\* ------------------------------------------------------------------------
\* client code drops the value of a finished execute_query call when it
\* goes on to its next call
DropFrame ==
    /\ eqPc' = "idle" /\ eqCaller' = "none" /\ retry_count' = 0
    /\ max_retries' = DefaultMaxRetries /\ eqRet' = NoneResult
    /\ requests' = 0 /\ snapshots' = 0 /\ first_snapshot' = ZeroSnapshot
    /\ entry_key' = 0 /\ first_key' = -1 /\ last_exc' = "none"
    /\ last_net' = NoNet /\ last_wait' = NoWait /\ sent_key' = -1
    /\ first_quota' = NoQuota

\* GitHubGraphQLClient.rotate_key
RotateKey ==
    /\ ClientIdle
    /\ LET r == rotate_key(current_key_index, Len(api_keys))
           fresh == rot_calls = 0 \/ rot_calls >= Len(api_keys)
       IN /\ current_key_index' = r.idx
          /\ rot_start' = IF fresh THEN current_key_index ELSE rot_start
          /\ rot_calls' = IF fresh THEN 1 ELSE rot_calls + 1
          /\ rot_ok' = IF fresh THEN r.ok ELSE rot_ok /\ r.ok
    /\ DropFrame
    /\ UNCHANGED <<api_keys, restKeyVars, restVars, storeVars, pgVars, pgObs>>

\* GitHubRESTClient.rotate_key
RestRotateKey ==
    /\ ClientIdle
    /\ RestIdle
    /\ rest_current_key_index' = rotate_key(rest_current_key_index, Len(api_keys)).idx
    /\ DropFrame
    /\ UNCHANGED <<keyVars, rotVars, pgVars, pgObs, restVars, storeVars, rest_client,
                   rest_other_key_index>>

\* ------------------------------------------------------------------------
\* paginate_query: what happens with the value execute_query returned
\* ------------------------------------------------------------------------
\* variant: the test written as `not result`
no_usable_result_none_only(result) == result.none

\* `not result or 'data' not in result`
no_usable_result(result) ==
    \/ result.none
    \/ (result.body.errorsField = "absent" /\ result.body.data.field = "absent")
    \/ result.body.data.field = "absent"

\* navigating page_info_path and reading pageInfo (lines 241-253) raises
\* when it meets null where it expects an object
navigation_raises(page) ==
    \/ page.field = "null"
    \/ (page.field = "object" /\ page.nav \in {"node_null", "pageInfo_null"})

\* variant: hasNextPage not read
next_has_next_ignores_flag(page) == page.nav = "pageInfo"

\* has_next after a page (lines 242-253)
next_has_next(page) == page.nav = "pageInfo" /\ page.hasNextPage = "true"

\* variant: the breaker test written as >
breaker_trips_late(cf) == cf > max_consecutive_failures

\* the breaker test (line 226)
breaker_trips(cf) == cf >= max_consecutive_failures

\* a fetch "gives no usable result": the value is None or has no data field
NoneOrNoData(result) == result.none \/ result.body.data.field = "absent"

\* the observations of paginate_query after a fetch returned result
ObservePage(result) ==
    /\ fail_run' = IF NoneOrNoData(result) THEN fail_run + 1 ELSE 0
    /\ run_base' = IF NoneOrNoData(result)
                   THEN (IF fail_run = 0 THEN Len(all_results) ELSE run_base)
                   ELSE 0
    /\ resets' = IF ~NoneOrNoData(result) /\ fail_run > 0 THEN resets + 1 ELSE resets
    /\ clean_fetches' = IF ~NoneOrNoData(result) /\ clean_fetches >= 0
                        THEN clean_fetches + 1 ELSE -1
    /\ page_after' = IF NoneOrNoData(result) THEN page_after
                     ELSE Append(page_after, sent_after)
    /\ UNCHANGED <<sent_after, pg_calls>>

\* lines 224-259, entered with the value returned by execute_query
PgResume(result) ==
    /\ ObservePage(result)
    /\ IF no_usable_result(result)
       THEN /\ consecutive_failures' = consecutive_failures + 1
            /\ pgPc' = IF breaker_trips(consecutive_failures + 1) THEN "aborted" ELSE "loop"
            /\ UNCHANGED <<max_pages, has_next, cursor, variables_after, page_count,
                           all_results>>
       ELSE LET page == result.body.data IN
            /\ consecutive_failures' = 0
            /\ all_results' = Append(all_results, page)
            /\ IF navigation_raises(page)
               THEN /\ pgPc' = "raised"
                    /\ UNCHANGED <<has_next, cursor, page_count>>
               ELSE /\ pgPc' = "loop"
                    /\ has_next' = next_has_next(page)
                    /\ cursor' = IF page.nav = "pageInfo" THEN page.endCursor ELSE cursor
                    /\ page_count' = page_count + 1
            /\ UNCHANGED <<max_pages, variables_after>>

\* ------------------------------------------------------------------------
\* execute_query
\* ------------------------------------------------------------------------
\* the frame of a fresh call
EnterExecuteQuery(caller, mr) ==
    /\ eqPc' = "loop" /\ eqCaller' = caller /\ retry_count' = 0
    /\ max_retries' = mr /\ eqRet' = NoneResult
    /\ requests' = 0 /\ snapshots' = 0 /\ first_snapshot' = ZeroSnapshot
    /\ entry_key' = (IF caller = "caller" THEN current_key_index ELSE 0)
    /\ first_key' = -1 /\ last_exc' = "none"
    /\ last_net' = NoNet /\ last_wait' = NoWait /\ sent_key' = -1
    /\ first_quota' = NoQuota

\* a call by client code
ExecuteQuery ==
    /\ ClientIdle
    /\ \E mr \in (0..MaxRetriesArg) \cup {DefaultMaxRetries} : EnterExecuteQuery("caller", mr)
    /\ rot_start' = 0 /\ rot_calls' = 0 /\ rot_ok' = TRUE
    /\ UNCHANGED <<keyVars, restKeyVars, restVars, storeVars, pgVars, pgObs>>

\* a call by client code whose answers, waits and keys are followed
ExecuteQueryTraced ==
    /\ ClientIdle
    /\ \E mr \in (0..MaxRetriesArg) \cup {DefaultMaxRetries} : EnterExecuteQuery("traced", mr)
    /\ rot_start' = 0 /\ rot_calls' = 0 /\ rot_ok' = TRUE
    /\ UNCHANGED <<keyVars, restKeyVars, restVars, storeVars, pgVars, pgObs>>

\* the call ends: it returns value, or exception propagates out of it; the
\* local retry_count of a finished call is kept, as an observation, for the
\* calls made by client code
EndExecuteQuery(how, value, rc, obs) ==
    IF eqCaller \in {"paginate", "user_paginate", "counted_paginate"}
    THEN /\ DropFrame
         /\ IF how = "raised"
            THEN /\ pgPc' = "raised"
                 /\ UNCHANGED <<max_pages, has_next, cursor, variables_after, page_count,
                                consecutive_failures, all_results, pgObs>>
            ELSE PgResume(value)
    ELSE /\ eqPc' = how /\ eqRet' = value
         /\ retry_count' = IF eqCaller \in {"caller", "traced"} THEN rc ELSE 0
         /\ requests' = obs.requests /\ snapshots' = obs.snapshots
         /\ first_snapshot' = obs.first_snapshot /\ first_key' = obs.first_key
         /\ last_exc' = obs.last_exc
         /\ last_net' = obs.last_net /\ last_wait' = obs.last_wait
         /\ sent_key' = obs.sent_key /\ first_quota' = obs.first_quota
         /\ UNCHANGED <<eqCaller, max_retries, entry_key, pgVars, pgObs>>

\* the state after one pass through the try block with effect eff0 (before
\* the except clauses) and observations obs0
ApplyEff(eff0, obs0) ==
    LET eff == TryExcept(eff0)
        obs == [obs0 EXCEPT !.last_exc =
                   IF eqCaller = "caller" /\ eff0.act = "raise" /\ eff.act = "continue"
                   THEN eff0.exc ELSE @,
                                !.last_wait =
                   IF eqCaller = "traced" THEN eff.wait ELSE @]
    IN
    /\ current_key_index' = eff.idx
    /\ UNCHANGED <<api_keys, restKeyVars, restVars, storeVars, rotVars>>
    /\ IF eff.act \in {"proceed", "continue"}
       THEN /\ eqPc' = IF eff.act = "proceed" THEN "post" ELSE "loop"
            /\ retry_count' = eff.rc
            /\ requests' = obs.requests /\ snapshots' = obs.snapshots
            /\ first_snapshot' = obs.first_snapshot /\ first_key' = obs.first_key
            /\ last_exc' = obs.last_exc
            /\ last_net' = obs.last_net /\ last_wait' = obs.last_wait
            /\ sent_key' = obs.sent_key /\ first_quota' = obs.first_quota
            /\ UNCHANGED <<eqCaller, max_retries, eqRet, entry_key, pgVars, pgObs>>
       ELSE EndExecuteQuery(IF eff.act = "return" THEN "done" ELSE "raised",
                            eff.value, eff.rc, obs)

\* the observations are kept for calls made by client code: the counts and
\* the first snapshot for every such call, the keys of entry and of the first
\* request and the caught exception for a plain call ("caller"), the latest
\* answer, wait and key for a call that is followed answer by answer
\* ("traced"); a call made by paginate_query is observed through the
\* paginator's own observations
Obs(r, s, fs, fk, ln, sk) ==
    LET direct == eqCaller \in {"caller", "traced"} IN
    [requests |-> IF direct THEN r ELSE requests,
     snapshots |-> IF direct THEN s ELSE snapshots,
     first_snapshot |-> IF direct THEN fs ELSE first_snapshot,
     first_key |-> IF eqCaller = "caller" THEN fk ELSE first_key,
     last_exc |-> last_exc,
     last_net |-> IF eqCaller = "traced" THEN ln ELSE last_net,
     last_wait |-> last_wait,
     sent_key |-> IF eqCaller = "traced" THEN sk ELSE sent_key,
     first_quota |-> first_quota]

\* `while retry_count < max_retries` fails: log and return None (lines 204-205)
EQ_Exhausted ==
    /\ eqPc = "loop"
    /\ ~retry_allowed(retry_count, max_retries)
    /\ EndExecuteQuery("done", NoneResult, retry_count,
                       Obs(requests, snapshots, first_snapshot, first_key,
                           last_net, sent_key))
    /\ UNCHANGED <<keyVars, restKeyVars, restVars, storeVars, rotVars>>

\* first attempt: the quota snapshot and the rotate-or-wait decision
EQ_QuotaGate ==
    /\ eqPc = "loop"
    /\ retry_allowed(retry_count, max_retries)
    /\ first_attempt(retry_count)
    /\ \E q \in QuotaOutcomes :
         ApplyEff(QuotaGate(q, current_key_index, Len(api_keys), retry_count),
                  [Obs(requests, snapshots + 1,
                       IF snapshots = 0 THEN check_rate_limit(q) ELSE first_snapshot,
                       first_key, last_net, sent_key)
                     EXCEPT !.first_quota = IF eqCaller = "traced" THEN q ELSE @])

\* the data request, the classification of its outcome and what follows
EQ_Request ==
    /\ \/ eqPc = "post"
       \/ (eqPc = "loop" /\ retry_allowed(retry_count, max_retries) /\ ~first_attempt(retry_count))
    /\ \E o \in NetOutcomes(eqCaller) : \E jitter \in JittersFor(o) :
         ApplyEff(Attempt(o, current_key_index, Len(api_keys), retry_count, jitter),
                  Obs(requests + 1, snapshots, first_snapshot,
                      IF requests = 0 THEN current_key_index ELSE first_key,
                      o, current_key_index))

\* ------------------------------------------------------------------------
\* paginate_query
\* ------------------------------------------------------------------------
\* variant: the page limit written as <=
loop_continues_inclusive(hn, mp, pc) == hn /\ (mp = NoneInt \/ pc <= mp)

\* the loop condition (line 217)
loop_continues(hn, mp, pc) == hn /\ (mp = NoneInt \/ pc < mp)

\* a call by client code, with variables = {..., 'after': None}
PaginateQuery ==
    /\ ClientIdle
    /\ \E mp \in {NoneInt} \cup (0..MaxPages) : max_pages' = mp
    /\ pgPc' = "loop" /\ has_next' = TRUE /\ cursor' = "None"
    /\ variables_after' = "None" /\ page_count' = 0 /\ consecutive_failures' = 0
    /\ all_results' = <<>>
    /\ page_after' = <<>> /\ sent_after' = "None" /\ clean_fetches' = 0
    /\ fail_run' = 0 /\ run_base' = 0 /\ resets' = 0 /\ pg_calls' = -1
    /\ UNCHANGED <<keyVars, restKeyVars, restVars, storeVars, rotVars, eqVars, eqObs>>

\* a call with a finite max_pages whose execute_query calls are counted
PaginateQueryCounted ==
    /\ ClientIdle
    /\ \E mp \in 0..MaxPages : max_pages' = mp
    /\ pgPc' = "loop" /\ has_next' = TRUE /\ cursor' = "None"
    /\ variables_after' = "None" /\ page_count' = 0 /\ consecutive_failures' = 0
    /\ all_results' = <<>>
    /\ page_after' = <<>> /\ sent_after' = "None" /\ clean_fetches' = 0
    /\ fail_run' = 0 /\ run_base' = 0 /\ resets' = 0 /\ pg_calls' = 0
    /\ UNCHANGED <<keyVars, restKeyVars, restVars, storeVars, rotVars, eqVars, eqObs>>

\* one more iteration: put the cursor into variables and call execute_query
PG_Fetch ==
    /\ pgPc = "loop"
    /\ loop_continues(has_next, max_pages, page_count)
    /\ max_pages = NoneInt => Len(all_results) < MaxPages
    /\ LET after == IF Truthy(cursor) THEN cursor ELSE variables_after IN
       /\ variables_after' = after
       /\ sent_after' = after
       /\ fail_run' = IF after = sent_after THEN fail_run ELSE 0
    /\ pgPc' = "fetching"
    /\ pg_calls' = IF pg_calls >= 0 THEN pg_calls + 1 ELSE pg_calls
    /\ EnterExecuteQuery(CASE ucPc \in UserLists -> "user_paginate"
                            [] ucPc \notin UserLists /\ pg_calls >= 0 -> "counted_paginate"
                            [] OTHER -> "paginate",
                         DefaultMaxRetries)
    /\ UNCHANGED <<keyVars, restKeyVars, restVars, storeVars, rotVars, max_pages, has_next, cursor,
                   page_count, consecutive_failures, all_results,
                   page_after, clean_fetches, run_base, resets>>

\* the loop ends: return all_results
PG_Return ==
    /\ pgPc = "loop"
    /\ ~loop_continues(has_next, max_pages, page_count)
    /\ pgPc' = "done"
    /\ UNCHANGED <<keyVars, restKeyVars, restVars, storeVars, rotVars, eqVars, eqObs,
                   max_pages, has_next, cursor, variables_after, page_count,
                   consecutive_failures, all_results, pgObs>>

\* ------------------------------------------------------------------------
\* GitHubRESTClient.get
\* ------------------------------------------------------------------------
\* a call by client code
RestGet ==
    /\ RestIdle /\ ClientIdle
    /\ \E mr \in (0..MaxRetriesArg) \cup {RestDefaultMaxRetries} : rest_max_retries' = mr
    /\ restPc' = "loop" /\ rest_retry' = 0 /\ rest_ret' = "None"
    /\ rest_requests' = 0 /\ rest_last' = RestNoAnswer /\ rest_sent_key' = -1
    /\ restCaller' = "caller"
    /\ UNCHANGED <<keyVars, restKeyVars, rotVars, eqVars, eqObs, pgVars, pgObs, storeVars>>

\* one iteration of the loop: the request and what follows from its answer
RG_Request ==
    /\ restPc = "loop"
    /\ rest_retry_allowed(rest_retry, rest_max_retries)
    /\ \E o \in RestOutcomes :
         LET eff == RestTryExcept(RestAttempt(o, rest_current_key_index, Len(api_keys))) IN
         /\ IF restCaller = "caller"
            THEN /\ rest_requests' = rest_requests + 1
                 /\ rest_last' = o
                 /\ rest_sent_key' = rest_current_key_index
            ELSE UNCHANGED <<rest_requests, rest_last, rest_sent_key>>
         /\ rest_current_key_index' = eff.idx
         /\ IF eff.act = "next"
            THEN /\ rest_retry' = rest_retry + 1
                 /\ UNCHANGED <<restPc, rest_ret>>
            ELSE /\ restPc' = IF eff.act = "return" THEN "done" ELSE "raised"
                 /\ rest_ret' = eff.value
                 /\ UNCHANGED rest_retry
    /\ UNCHANGED <<keyVars, rotVars, eqVars, eqObs, pgVars, pgObs, storeVars, rest_max_retries,
                   restCaller, rest_client, rest_other_key_index>>

\* the loop is over: return None (line 341)
RG_Exhausted ==
    /\ restPc = "loop"
    /\ ~rest_retry_allowed(rest_retry, rest_max_retries)
    /\ restPc' = "done" /\ rest_ret' = "None"
    /\ UNCHANGED <<keyVars, restKeyVars, rotVars, eqVars, eqObs, pgVars, pgObs, storeVars,
                   rest_retry, rest_max_retries, rest_requests, rest_last, rest_sent_key,
                   restCaller>>

\* ------------------------------------------------------------------------
\* CheckpointManager
\* ------------------------------------------------------------------------
\* CheckpointManager(checkpoint_file): a manager is constructed on the file
\* (the next run, or the next crawler of the same run) and is the one in use
\* from then on
CkConstruct ==
    /\ checkpoint_data' = load_checkpoint(checkpoint_file)
    /\ ck_op' = [op |-> "init", write |-> "none"]
    /\ ck_last' = EmptyDict
    /\ UNCHANGED <<checkpoint_file, keyVars, restKeyVars, rotVars, eqVars,
                   eqObs, pgVars, pgObs, restVars, trVars, ucVars, crawlVars>>

\* checkpoint.set(key, value)
CkSet ==
    /\ \E key \in CkKeys, value \in CkValues, outcome \in WriteOutcomes :
         LET r == ck_set(checkpoint_data, checkpoint_file, key, value, outcome) IN
         /\ checkpoint_data' = r.data
         /\ checkpoint_file' = r.file
         /\ ck_op' = [op |-> "set", write |-> outcome]
         /\ ck_last' = dict_update(ck_last, [k \in {key} |-> value])
    /\ UNCHANGED <<keyVars, restKeyVars, rotVars, eqVars,
                   eqObs, pgVars, pgObs, restVars, trVars, ucVars, crawlVars>>

\* checkpoint.save_checkpoint(data)
CkSaveCheckpoint ==
    /\ \E data \in CkDicts, outcome \in WriteOutcomes :
         LET r == save_checkpoint(checkpoint_data, checkpoint_file, data, outcome) IN
         /\ checkpoint_data' = r.data
         /\ checkpoint_file' = r.file
         /\ ck_op' = [op |-> "save_checkpoint", write |-> outcome]
         /\ ck_last' = dict_update(ck_last, data)
    /\ UNCHANGED <<keyVars, restKeyVars, rotVars, eqVars,
                   eqObs, pgVars, pgObs, restVars, trVars, ucVars, crawlVars>>

\* everything but the two managers and their file
MgrFrame == <<keyVars, restKeyVars, rotVars, eqVars, eqObs, pgVars, pgObs,
              restVars, trVars, ucVars, plVars, gtVars, guVars, ck_op, ck_last>>

\* checkpoint_data of the manager of crawler m
manager_data(m) == IF m = "repos" THEN checkpoint_data ELSE managers_data[m]

\* checkpoint.set(key, value) through one of the two managers
ManagerSet ==
    /\ \E m \in Managers, key \in CkKeys, value \in CkValues, outcome \in WriteOutcomes :
         LET r == ck_set(manager_data(m), checkpoint_file, key, value, outcome) IN
         /\ IF m = "repos"
            THEN /\ checkpoint_data' = r.data
                 /\ UNCHANGED managers_data
            ELSE /\ managers_data' = [managers_data EXCEPT ![m] = r.data]
                 /\ UNCHANGED checkpoint_data
         /\ checkpoint_file' = r.file
         /\ managers_last' = dict_update(managers_last, [k \in {key} |-> value])
         /\ managers_failed' = (managers_failed \/ outcome # "ok")
    /\ UNCHANGED MgrFrame

\* ------------------------------------------------------------------------
\* The REST page loops
\* ------------------------------------------------------------------------
\* rest_client.get(endpoint, params) with the default max_retries
EnterRestGet ==
    /\ restPc' = "loop" /\ rest_retry' = 0 /\ rest_ret' = "None"
    /\ rest_max_retries' = RestDefaultMaxRetries
    /\ rest_requests' = 0 /\ rest_last' = RestNoAnswer /\ rest_sent_key' = -1
    /\ restCaller' = "crawler"

\* the caller has taken the value of the finished get
DropRestFrame ==
    /\ restPc' = "idle" /\ rest_retry' = 0 /\ rest_ret' = "None"
    /\ rest_max_retries' = RestDefaultMaxRetries
    /\ rest_requests' = 0 /\ rest_last' = RestNoAnswer /\ rest_sent_key' = -1
    /\ restCaller' = "none"

\* everything the page loops leave alone
PlFrame == <<keyVars, rotVars, pgVars, pgObs, trVars, ucVars,
             mgrVars, gtVars, guVars>>

\* checkpoint.set(key, value) of the crawler's manager
CrawlerCheckpointSet(key, value, outcome) ==
    LET r == ck_set(checkpoint_data, checkpoint_file, key, value, outcome) IN
    /\ checkpoint_data' = r.data
    /\ checkpoint_file' = r.file
    /\ UNCHANGED <<ck_op, ck_last>>

\* the request for page p of the running loop
RequestPage(p) ==
    /\ EnterRestGet
    /\ pl_page' = p
    /\ pl_asked' = Append(pl_asked, p)
    /\ pl_after_short' = (pl_after_short \/ pl_last \in {"absent", "empty", "short"})

\* a loop starts: page = 1, nothing counted, and the request for page 1
StartLoop(kind) ==
    /\ plKind' = kind /\ plPc' = "page"
    /\ EnterRestGet
    /\ pl_page' = 1 /\ pl_asked' = <<1>> /\ pl_after_short' = FALSE
    /\ pl_len' = 0 /\ pl_items' = <<>> /\ pl_total' = 0
    /\ pl_eligible' = 0 /\ pl_last' = "none"

\* get_repo_contributors, lines 428-435: the loop is left; a non-empty list
\* is stored in the checkpoint, and the list is returned
RC_Return ==
    /\ plPc' = "done" /\ pl_ret' = "list"
    /\ IF pl_total > 0
       THEN \E outcome \in WriteOutcomes :
              CrawlerCheckpointSet(ContribKey, py_list_of(pl_total), outcome)
       ELSE UNCHANGED ckVars

\* get_repo_contributors(repo), lines 351-375: [] for a recovered repository,
\* the cached list if there is one, otherwise the loop starts with page 1
GetRepoContributors ==
    /\ plPc \in {"idle", "done"} /\ ClientIdle /\ RestIdle
    /\ \E recovered \in BOOLEAN :
         LET cached == ck_get(checkpoint_data, ContribKey, PyNone) IN
         IF recovered \/ cached_usable(cached)
         THEN /\ plKind' = "contributors" /\ plPc' = "done" /\ pl_ret' = "list"
              /\ pl_total' = IF recovered THEN 0 ELSE cached.v
              /\ pl_page' = 1 /\ pl_asked' = <<>> /\ pl_after_short' = FALSE
              /\ pl_len' = 0 /\ pl_items' = <<>>
              /\ pl_eligible' = 0 /\ pl_last' = "none"
              /\ UNCHANGED restVars
         ELSE /\ StartLoop("contributors")
              /\ pl_ret' = "None"
    /\ cc_counts' = NoCounts
    /\ UseRestClient("repos")
    /\ UNCHANGED <<eqVars, eqObs, ckVars, PlFrame>>

\* lines 377-384: the get of the page is over; no result leaves the loop,
\* otherwise the items of the page are gone through
RC_Page ==
    /\ plKind = "contributors" /\ plPc = "page"
    /\ restPc \in {"done", "raised"}
    /\ DropRestFrame
    /\ \E items \in PagesAt(pl_page) :
         LET absent == restPc = "raised" \/ rest_ret = "None" IN
         /\ pl_last' = page_class(absent, Len(items))
         /\ IF absent \/ items = <<>>
            THEN /\ UNCHANGED <<pl_len, pl_items, pl_total, pl_eligible>>
                 /\ RC_Return
            ELSE /\ plPc' = "items"
                 /\ pl_items' = items /\ pl_len' = Len(items)
                 /\ pl_eligible' = pl_eligible + eligible(items)
                 /\ UNCHANGED <<pl_total, pl_ret, ckVars>>
    /\ UNCHANGED <<plKind, pl_page, pl_asked, pl_after_short, cc_counts, eqVars, eqObs, restKeyVars, PlFrame>>

\* lines 385-424: the next item of the page: the user query for a
\* contributor above MIN_COMMITS; after the last item the loop is left when
\* the page was short, otherwise the next page is requested
RC_Item ==
    /\ plKind = "contributors" /\ plPc = "items"
    /\ IF pl_items = <<>>
       THEN IF pl_len < PerPage
            THEN /\ RC_Return
                 /\ UNCHANGED <<pl_page, pl_asked, pl_after_short, restVars, eqVars, eqObs>>
            ELSE /\ RequestPage(pl_page + 1)
                 /\ plPc' = "page"
                 /\ UNCHANGED <<pl_ret, ckVars, eqVars, eqObs>>
       ELSE IF Head(pl_items) = "few"
            THEN UNCHANGED <<plPc, pl_page, pl_asked, pl_after_short, pl_ret, ckVars,
                             restVars, eqVars, eqObs>>
            ELSE /\ EnterExecuteQuery("contributor", DefaultMaxRetries)
                 /\ plPc' = "user"
                 /\ UNCHANGED <<pl_page, pl_asked, pl_after_short, pl_ret, ckVars, restVars>>
    /\ pl_items' = IF pl_items # <<>> /\ Head(pl_items) = "few" THEN Tail(pl_items)
                   ELSE pl_items
    /\ UNCHANGED <<plKind, pl_len, pl_total, pl_eligible, pl_last, cc_counts, restKeyVars, PlFrame>>

\* lines 387-426: the user query is over and an entry is appended, or the
\* navigation of its result raises and the except clause leaves the loop
RC_User ==
    /\ plKind = "contributors" /\ plPc = "user"
    /\ eqPc \in {"done", "raised"}
    /\ DropFrame
    /\ IF contributor_class(eqPc = "raised", eqRet) = "raise"
       THEN /\ UNCHANGED <<pl_items, pl_total>>
            /\ RC_Return
       ELSE /\ pl_total' = pl_total + 1
            /\ pl_items' = Tail(pl_items)
            /\ plPc' = "items"
            /\ UNCHANGED <<pl_ret, ckVars>>
    /\ UNCHANGED <<plKind, pl_page, pl_len, pl_asked, pl_eligible, pl_last, pl_after_short,
                   cc_counts, restVars, restKeyVars, PlFrame>>

\* CollaborationCrawler.__init__ (crawl_collaborations.py lines 17-19) on the
\* client passed in: a new REST client on the client's keys
CollaborationCrawlerInit ==
    /\ plPc \in {"idle", "done"} /\ ClientIdle /\ RestIdle
    /\ NewRestClient("collab")
    /\ UNCHANGED <<keyVars, rotVars, eqVars, eqObs, pgVars, pgObs, restVars, storeVars>>

\* get_user_repo_contributions_rest(login, repo_full_name), lines 211-219:
\* the get of users/{login}
GetUserRepoContributionsRest ==
    /\ plPc \in {"idle", "done"} /\ ClientIdle /\ RestIdle
    /\ plKind' = "user" /\ plPc' = "user_info" /\ pl_ret' = "None"
    /\ EnterRestGet
    /\ pl_page' = 1 /\ pl_asked' = <<>> /\ pl_after_short' = FALSE
    /\ pl_len' = 0 /\ pl_items' = <<>> /\ pl_total' = 0
    /\ pl_eligible' = 0 /\ pl_last' = "none" /\ cc_counts' = NoCounts
    /\ UseRestClient("collab")
    /\ UNCHANGED <<eqVars, eqObs, ckVars, PlFrame>>

\* lines 220-232: {} when there is no user; otherwise the commits loop starts
CC_User ==
    /\ plKind = "user" /\ plPc = "user_info"
    /\ restPc \in {"done", "raised"}
    /\ \E user_empty \in BOOLEAN :
         IF restPc = "raised" \/ rest_ret = "None" \/ user_empty
         THEN /\ plPc' = "done" /\ pl_ret' = "{}"
              /\ DropRestFrame
              /\ UNCHANGED <<plKind, pl_page, pl_len, pl_items, pl_total, pl_asked, pl_eligible,
                             pl_last, pl_after_short>>
         ELSE /\ StartLoop("commits")
              /\ UNCHANGED pl_ret
    /\ UNCHANGED <<cc_counts, eqVars, eqObs, ckVars, restKeyVars, PlFrame>>

\* lines 228-268: the get of a page of a counting loop is over: no result
\* leaves the loop, otherwise its length is added, and a short page leaves
\* the loop, a full one is followed by the request for the next page
CC_Page ==
    /\ plKind \in CountKinds /\ plPc = "page"
    /\ restPc \in {"done", "raised"}
    /\ IF restPc = "raised"
       THEN /\ plPc' = "done" /\ pl_ret' = "{}"
            /\ DropRestFrame
            /\ UNCHANGED <<pl_page, pl_len, pl_total, pl_asked, pl_eligible, pl_last,
                           pl_after_short>>
       ELSE \E n \in PageLengthsAt(pl_page) :
              LET absent == rest_ret = "None" IN
              /\ pl_last' = page_class(absent, n)
              /\ pl_len' = IF absent THEN pl_len ELSE n
              /\ pl_total' = IF absent THEN pl_total ELSE pl_total + n
              /\ pl_eligible' = IF absent THEN pl_eligible ELSE pl_eligible + n
              /\ IF absent \/ n < PerPage
                 THEN /\ plPc' = "ended"
                      /\ DropRestFrame
                      /\ UNCHANGED <<pl_page, pl_asked, pl_after_short>>
                 ELSE /\ RequestPage(pl_page + 1)
                      /\ UNCHANGED plPc
              /\ UNCHANGED pl_ret
    /\ UNCHANGED <<plKind, pl_items, cc_counts, eqVars, eqObs, ckVars, restKeyVars, PlFrame>>

\* a counting loop is left: its count is kept and the next loop starts, or
\* the dict of the three counts is returned (lines 270-277)
CC_Next ==
    /\ plKind \in CountKinds /\ plPc = "ended"
    /\ cc_counts' = [cc_counts EXCEPT ![plKind] = pl_total]
    /\ IF plKind = "issues"
       THEN /\ plPc' = "done" /\ pl_ret' = "counts"
            /\ UNCHANGED <<plKind, pl_page, pl_len, pl_items, pl_total, pl_asked, pl_eligible,
                           pl_last, pl_after_short, restVars>>
       ELSE /\ StartLoop(next_count(plKind))
            /\ UNCHANGED pl_ret
    /\ UNCHANGED <<eqVars, eqObs, ckVars, restKeyVars, PlFrame>>

\* ------------------------------------------------------------------------
\* RepositoryCrawler.get_top_repos and get_union_repos
\* ------------------------------------------------------------------------
\* what the write of the checkpoint file by checkpoint.set can do in these
\* two: succeed, or fail at open or at json.dump (utils.py lines 41-46) as
\* long as fewer than MaxFailedWrites writes have failed
TopWriteOutcomes ==
    IF top_failed_writes < MaxFailedWrites THEN WriteOutcomes ELSE {"ok"}

\* the failed writes after writes with the outcomes given
failed_after(outcomes) ==
    top_failed_writes + Cardinality({i \in DOMAIN outcomes : outcomes[i] # "ok"})

\* everything these two leave alone
GtFrame == <<keyVars, rotVars, pgVars, pgObs, trVars, ucVars,
             mgrVars, plVars>>

\* get_top_repos(sort_by, limit), lines 142-168: the cached list of the
\* first checkpoint key that has one, otherwise the search loop is entered
EnterGetTopRepos(sort_by, limit) ==
    LET keys == TopKeys(sort_by)
        values == [i \in 1..3 |-> ck_get(checkpoint_data, keys[i], PyNone)]
        hit == first_cached(values)
    IN
    /\ gt_sort' = sort_by /\ gt_entry' = values /\ gt_all_none' = TRUE
    /\ gt_repos' = 0 /\ gt_todo' = 0 /\ gt_detailed' = 0
    /\ gt_batch_size' = 20 /\ gt_after' = "None"
    /\ IF hit # 0
       THEN /\ gtPc' = "done" /\ gt_ret' = values[hit]
            /\ gt_remaining' = 0 /\ gt_first' = 0 /\ gt_requested' = FALSE
            /\ UNCHANGED <<eqVars, eqObs>>
       ELSE /\ gt_ret' = PyNone
            /\ gt_remaining' = limit /\ gt_first' = min2(20, limit)
            /\ IF limit > 0
               THEN /\ gtPc' = "search" /\ gt_requested' = TRUE
                    /\ EnterExecuteQuery("search", DefaultMaxRetries)
               ELSE /\ gtPc' = "save_basic" /\ gt_requested' = FALSE
                    /\ UNCHANGED <<eqVars, eqObs>>

\* a call of get_top_repos by client code, which has dropped the value of
\* an earlier get_union_repos call
GetTopRepos ==
    /\ gtPc \in {"idle", "done"} /\ guPc \in {"idle", "done"} /\ ClientIdle /\ RestIdle
    /\ \E sort_by \in SortKeys, limit \in 0..MaxLimit : EnterGetTopRepos(sort_by, limit)
    /\ guPc' = "idle" /\ gu_ret' = PyNone /\ gu_entry' = PyNone
    /\ gu_requested' = FALSE /\ gu_wrote' = FALSE
    /\ UseRestClient("repos")
    /\ UNCHANGED <<top_failed_writes, restVars, ckVars, GtFrame>>

\* lines 172-211: the search query is over. No result: batch_size is halved
\* and the query is made again; a page: its public repositories are taken
\* until remaining is 0, and the loop is left or goes on with the next page;
\* an exception: the except clause, and the query is made again
GT_Search ==
    /\ gtPc = "search"
    /\ eqPc \in {"done", "raised"}
    /\ LET class == search_class(eqPc = "raised", eqRet) IN
       /\ gt_all_none' = (gt_all_none /\ eqPc = "done" /\ eqRet.none)
       /\ IF class = "absent"
          THEN /\ gt_batch_size' = halve_batch(gt_batch_size)
               /\ gt_first' = min2(halve_batch(gt_batch_size), gt_remaining)
               /\ EnterExecuteQuery("search", DefaultMaxRetries)
               /\ UNCHANGED <<gtPc, gt_remaining, gt_after, gt_repos>>
          ELSE IF class = "error"
          THEN /\ EnterExecuteQuery("search", DefaultMaxRetries)
               /\ UNCHANGED <<gtPc, gt_remaining, gt_batch_size, gt_first, gt_after, gt_repos>>
          ELSE \E edges \in EdgeLists(gt_first) :
                 LET taken == min2(publics(edges), gt_remaining)
                     left == gt_remaining - taken
                 IN
                 /\ gt_repos' = gt_repos + taken
                 /\ gt_remaining' = left
                 /\ IF eqRet.body.data.hasNextPage = "false" \/ left <= 0
                    THEN /\ gtPc' = "save_basic"
                         /\ DropFrame
                         /\ UNCHANGED <<gt_first, gt_after>>
                    ELSE /\ gt_after' = eqRet.body.data.endCursor
                         /\ gt_first' = min2(gt_batch_size, left)
                         /\ EnterExecuteQuery("search", DefaultMaxRetries)
                         /\ UNCHANGED gtPc
                 /\ UNCHANGED gt_batch_size
    /\ gu_requested' = (gu_requested \/ (guPc \in {"starred", "forked"} /\ gtPc' = "search"))
    /\ UNCHANGED <<gt_sort, gt_todo, gt_detailed, gt_ret, gt_entry, gt_requested,
                   guPc, gu_ret, gu_entry, gu_wrote, top_failed_writes, restVars, ckVars,
                   restKeyVars, GtFrame>>

\* lines 216-231: the list of the search is stored under f"{sort_by}_repos"
\* and the details loop starts with the details query of the first repository
GT_SaveBasic ==
    /\ gtPc = "save_basic"
    /\ \E outcome \in TopWriteOutcomes :
         /\ CrawlerCheckpointSet(TopKeys(gt_sort)[3], py_list_of(gt_repos), outcome)
         /\ top_failed_writes' = failed_after(<<outcome>>)
    /\ gt_todo' = gt_repos
    /\ IF gt_repos = 0
       THEN /\ gtPc' = "save_detailed"
            /\ UNCHANGED <<eqVars, eqObs, gt_requested, gu_requested>>
       ELSE /\ gtPc' = "details" /\ gt_requested' = TRUE
            /\ gu_requested' = (gu_requested \/ guPc \in {"starred", "forked"})
            /\ EnterExecuteQuery("repo_details", DefaultMaxRetries)
    /\ gu_wrote' = (gu_wrote \/ guPc \in {"starred", "forked"})
    /\ UNCHANGED <<gt_sort, gt_remaining, gt_batch_size, gt_first, gt_after, gt_repos,
                   gt_detailed, gt_ret, gt_entry, gt_all_none, guPc, gu_ret, gu_entry,
                   restVars, restKeyVars, GtFrame>>

\* the next repository of the details loop, or its end
GtNextRepo ==
    /\ gt_todo' = gt_todo - 1
    /\ IF gt_todo - 1 = 0
       THEN /\ gtPc' = "save_detailed"
            /\ DropFrame
       ELSE /\ gtPc' = "details"
            /\ EnterExecuteQuery("repo_details", DefaultMaxRetries)

\* lines 225-254: the details query of a repository is over: the get of
\* its contributors follows; when the navigation of the result raises, the
\* repository is appended with contributors_count 0
GT_Details ==
    /\ gtPc = "details"
    /\ eqPc \in {"done", "raised"}
    /\ IF details_raise(eqPc = "raised", eqRet)
       THEN /\ gt_detailed' = gt_detailed + 1
            /\ GtNextRepo
            /\ UNCHANGED restVars
       ELSE /\ gtPc' = "contributors"
            /\ DropFrame
            /\ EnterRestGet
            /\ UNCHANGED <<gt_todo, gt_detailed>>
    /\ UNCHANGED <<gt_sort, gt_remaining, gt_batch_size, gt_first, gt_after, gt_repos,
                   gt_ret, gt_entry, gt_requested, gt_all_none, guVars, ckVars, restKeyVars, GtFrame>>

\* get_contributors_count (lines 125-140) and lines 238-248: the repository
\* is appended when the get gave more than MIN_CONTRIBUTORS contributors and
\* skipped otherwise
GT_Contributors ==
    /\ gtPc = "contributors"
    /\ restPc \in {"done", "raised"}
    /\ DropRestFrame
    /\ \E enough \in BOOLEAN :
         gt_detailed' = IF restPc = "done" /\ rest_ret = "json" /\ enough
                        THEN gt_detailed + 1 ELSE gt_detailed
    /\ GtNextRepo
    /\ UNCHANGED <<gt_sort, gt_remaining, gt_batch_size, gt_first, gt_after, gt_repos,
                   gt_ret, gt_entry, gt_requested, gt_all_none, guVars, ckVars, restKeyVars, GtFrame>>

\* lines 256-260: the detailed list is stored under
\* f"{sort_by}_repos_with_details" and returned
GT_SaveDetailed ==
    /\ gtPc = "save_detailed"
    /\ \E outcome \in TopWriteOutcomes :
         /\ CrawlerCheckpointSet(TopKeys(gt_sort)[1], py_list_of(gt_detailed), outcome)
         /\ top_failed_writes' = failed_after(<<outcome>>)
    /\ gtPc' = "done" /\ gt_ret' = py_list_of(gt_detailed)
    /\ gt_remaining' = 0 /\ gt_batch_size' = 20 /\ gt_first' = 0 /\ gt_after' = "None"
    /\ gt_repos' = 0 /\ gt_detailed' = 0
    /\ gu_wrote' = (gu_wrote \/ guPc \in {"starred", "forked"})
    /\ UNCHANGED <<gt_sort, gt_todo, gt_entry, gt_requested, gt_all_none, guPc, gu_ret,
                   gu_entry, gu_requested, eqVars, eqObs, restVars, restKeyVars, GtFrame>>

\* get_union_repos(), lines 262-322: the cached 'union_repos' list if there
\* is one; the list recovered from the repo_processed_ keys when the
\* checkpoint has 'contributors'; otherwise get_top_repos('stars')
GetUnionRepos ==
    /\ gtPc \in {"idle", "done"} /\ guPc \in {"idle", "done"} /\ ClientIdle /\ RestIdle
    /\ LET cached_union == ck_get(checkpoint_data, "union_repos", PyNone)
           repo_ids == (DOMAIN checkpoint_data) \cap RepoProcessedKeys
       IN
       /\ gu_entry' = cached_union
       /\ IF cached_usable(cached_union)
          THEN /\ guPc' = "done" /\ gu_ret' = cached_union /\ gu_wrote' = FALSE
               /\ gu_requested' = FALSE
               /\ UNCHANGED <<top_failed_writes, gtVars, eqVars, eqObs, ckVars>>
          ELSE IF "contributors" \in DOMAIN checkpoint_data /\ repo_ids # {}
          THEN /\ guPc' = "done" /\ gu_ret' = py_list_of(Cardinality(repo_ids))
               /\ gu_wrote' = TRUE /\ gu_requested' = FALSE
               /\ \E outcome \in TopWriteOutcomes :
                    /\ CrawlerCheckpointSet("union_repos",
                                            py_list_of(Cardinality(repo_ids)), outcome)
                    /\ top_failed_writes' = failed_after(<<outcome>>)
               /\ UNCHANGED <<gtVars, eqVars, eqObs>>
          ELSE /\ guPc' = "starred" /\ gu_ret' = PyNone /\ gu_wrote' = FALSE
               /\ EnterGetTopRepos("stars", MaxLimit)
               /\ gu_requested' = gt_requested'
               /\ UNCHANGED <<top_failed_writes, ckVars>>
    /\ UseRestClient("repos")
    /\ UNCHANGED <<restVars, GtFrame>>

\* lines 324-329: the starred list is stored and get_top_repos('forks')
\* is called
GU_Starred ==
    /\ guPc = "starred" /\ gtPc = "done"
    /\ \E outcome \in TopWriteOutcomes :
         /\ CrawlerCheckpointSet("starred_repos_with_details", gt_ret, outcome)
         /\ top_failed_writes' = failed_after(<<outcome>>)
    /\ gu_wrote' = TRUE
    /\ guPc' = "forked"
    /\ EnterGetTopRepos("forks", MaxLimit)
    /\ gu_requested' = (gu_requested \/ gt_requested')
    /\ UNCHANGED <<gu_ret, gu_entry, restVars, restKeyVars, GtFrame>>

\* lines 331-349: the forked list is stored, the union of the two lists
\* without repeated ids is stored under 'union_repos' and returned;
\* starred is the list stored by GU_Starred
GU_Forked ==
    /\ guPc = "forked" /\ gtPc = "done"
    /\ LET starred == ck_get(checkpoint_data, "starred_repos_with_details", PyNone).v
           forked == gt_ret.v
       IN
       \E both \in 0..min2(starred, forked), o1 \in TopWriteOutcomes, o2 \in TopWriteOutcomes :
         /\ failed_after(<<o1, o2>>) <= MaxFailedWrites
         /\ top_failed_writes' = failed_after(<<o1, o2>>)
         /\ LET union_repos == py_list_of(starred + forked - both)
                r1 == ck_set(checkpoint_data, checkpoint_file,
                             "forked_repos_with_details", gt_ret, o1)
                r2 == ck_set(r1.data, r1.file, "union_repos", union_repos, o2)
            IN
            /\ checkpoint_data' = r2.data
            /\ checkpoint_file' = r2.file
            /\ gu_ret' = union_repos
    /\ UNCHANGED <<ck_op, ck_last>>
    /\ guPc' = "done" /\ gu_wrote' = TRUE
    /\ UNCHANGED <<gu_entry, gu_requested, gtVars, eqVars, eqObs, restVars, restKeyVars, GtFrame>>

\* RepositoryCrawler.__init__ (crawl_repos.py lines 17-21) on the client
\* passed in: a new REST client on the client's keys, a new
\* CheckpointManager loaded from the checkpoint file and a new
\* ProcessedDataTracker loaded from its file
RepositoryCrawlerInit ==
    /\ NewRestClient("repos")
    /\ checkpoint_data' = load_checkpoint(checkpoint_file)
    /\ ck_op' = [op |-> "init", write |-> "none"] /\ ck_last' = EmptyDict
    /\ processed_repos' = load_processed(processed_repos_file)
    /\ repos_reloaded' = (processed_repos_file.state # "missing")
    /\ UNCHANGED <<keyVars, checkpoint_file, processed_repos_file>>

\* UserCrawler.__init__ (crawl_users.py lines 16-20) on the two clients
\* passed in: a new CheckpointManager loaded from the checkpoint file and a
\* new ProcessedDataTracker loaded from its file
UserCrawlerInit ==
    /\ managers_data' = [managers_data EXCEPT !["users"] = load_checkpoint(checkpoint_file)]
    /\ processed_users' = load_processed(processed_users_file)
    /\ UNCHANGED <<keyVars, restKeyVars, checkpoint_file, processed_users_file>>

\* RepositoryCrawler constructed again, for a later run
TopNewRun ==
    /\ gtPc \in {"idle", "done"} /\ guPc \in {"idle", "done"} /\ ClientIdle /\ RestIdle
    /\ RepositoryCrawlerInit
    /\ gtPc' = "idle" /\ gt_ret' = PyNone /\ gt_entry' = NoEntry
    /\ gt_requested' = FALSE /\ gt_all_none' = TRUE
    /\ guPc' = "idle" /\ gu_ret' = PyNone /\ gu_entry' = PyNone
    /\ gu_requested' = FALSE /\ gu_wrote' = FALSE
    /\ UNCHANGED <<top_failed_writes, gt_sort, gt_remaining, gt_batch_size,
                   gt_first, gt_after, gt_repos, gt_todo, gt_detailed, eqVars, eqObs,
                   restVars, rotVars, pgVars, pgObs, ucVars, mgrVars, plVars,
                   repos_csv, srPc, sr_todo, repos_save_failed, sr_skipped, repos_attempted,
                   repos_cut>>

\* ------------------------------------------------------------------------
\* RepositoryCrawler.save_repos_to_csv
\* ------------------------------------------------------------------------
\* everything but the repository crawler's files and frame
SrFrame == <<keyVars, rotVars, eqVars, eqObs, pgVars, pgObs, restVars, ucVars, crawlVars>>

\* RepositoryCrawler constructed again, for a later run: the tracker, the
\* manager and the REST client are new, the tracker and the manager loaded
\* from the files the earlier runs left
ReposNewRun ==
    /\ srPc \in {"idle", "done"}
    /\ RepositoryCrawlerInit
    /\ srPc' = "idle" /\ sr_todo' = <<>> /\ sr_skipped' = {}
    /\ UNCHANGED <<repos_csv, repos_save_failed, repos_attempted, repos_cut, rotVars,
                   eqVars, eqObs, pgVars, pgObs, restVars, ucVars, crawlVars>>

\* save_repos_to_csv(repos): the filter and the early return (lines 457-461)
SaveReposToCsv ==
    /\ srPc \in {"idle", "done"}
    /\ \E repos \in RepoLists :
         /\ SumRows(repos_csv, RepoIds) + Len(valid_repos(repos)) <= MaxRows
         /\ sr_todo' = valid_repos(repos)
         /\ srPc' = IF valid_repos(repos) = <<>> THEN "done" ELSE "loop"
    /\ sr_skipped' = {}
    /\ UNCHANGED <<processed_repos, processed_repos_file, repos_csv, repos_save_failed,
                   repos_reloaded, repos_attempted, repos_cut, restKeyVars, ckVars, SrFrame>>

\* one iteration of `for repo in valid_repos` (lines 470-531), in its two
\* steps, between which the run can be interrupted: first the test of
\* is_processed, the extraction and write_row (lines 472-525); row_ok is
\* whether CSVWriter.write_row appended the row (it logs and swallows a
\* failure)
SR_Write_marks_first ==
    /\ srPc = "loop"
    /\ LET repo == Head(sr_todo) IN
       \E outcome \in WriteOutcomes, order \in py_list(processed_repos \cup {repo.id}) :
         LET marked == mark_processed(processed_repos, processed_repos_file, repo.id,
                                      order, outcome) IN
         /\ processed_repos' = marked.items
         /\ processed_repos_file' = marked.file
         /\ repos_save_failed' = (repos_save_failed \/
                                  (truthy_id(repo.id) /\ outcome # "ok"))
    /\ srPc' = "written"
    /\ UNCHANGED <<repos_csv, repos_attempted, sr_skipped, sr_todo, repos_reloaded,
                   repos_cut, restKeyVars, ckVars, SrFrame>>

SR_Write ==
    /\ srPc = "loop"
    /\ LET repo == Head(sr_todo)
           next == /\ sr_todo' = Tail(sr_todo)
                   /\ srPc' = IF Tail(sr_todo) = <<>> THEN "done" ELSE "loop"
       IN
       IF is_processed(processed_repos, repo.id)
       THEN /\ sr_skipped' = sr_skipped \cup {repo.id}
            /\ next
            /\ UNCHANGED <<repos_csv, repos_attempted>>
       ELSE IF repo.malformed
       THEN /\ next
            /\ UNCHANGED <<repos_csv, repos_attempted, sr_skipped>>
       ELSE \E row_ok \in BOOLEAN :
              /\ repos_csv' = IF row_ok THEN [repos_csv EXCEPT ![repo.id] = @ + 1]
                              ELSE repos_csv
              /\ repos_attempted' = repos_attempted \cup {repo.id}
              /\ srPc' = "written"
              /\ UNCHANGED <<sr_todo, sr_skipped>>
    /\ UNCHANGED <<processed_repos, processed_repos_file, repos_save_failed,
                   repos_reloaded, repos_cut, restKeyVars, ckVars, SrFrame>>

\* then mark_processed (line 527) and the next iteration
SR_Mark ==
    /\ srPc = "written"
    /\ LET repo == Head(sr_todo) IN
       \E outcome \in WriteOutcomes, order \in py_list(processed_repos \cup {repo.id}) :
         LET marked == mark_processed(processed_repos, processed_repos_file, repo.id,
                                      order, outcome) IN
         /\ processed_repos' = marked.items
         /\ processed_repos_file' = marked.file
         /\ repos_save_failed' = (repos_save_failed \/
                                  (truthy_id(repo.id) /\ outcome # "ok"))
    /\ sr_todo' = Tail(sr_todo)
    /\ srPc' = IF Tail(sr_todo) = <<>> THEN "done" ELSE "loop"
    /\ UNCHANGED <<repos_csv, repos_attempted, sr_skipped, repos_reloaded, repos_cut, restKeyVars, ckVars, SrFrame>>

\* the process is stopped in the middle of save_repos_to_csv and the crawler
\* is started again: the files are as they were, the tracker is constructed
\* on its file
ReposInterrupted ==
    /\ srPc \in {"loop", "written"}
    /\ RepositoryCrawlerInit
    /\ repos_cut' = IF srPc = "written" THEN repos_cut \cup {Head(sr_todo).id} ELSE repos_cut
    /\ srPc' = "idle" /\ sr_todo' = <<>> /\ sr_skipped' = {}
    /\ UNCHANGED <<repos_csv, repos_save_failed, repos_attempted, rotVars,
                   eqVars, eqObs, pgVars, pgObs, restVars, ucVars, crawlVars>>

\* ------------------------------------------------------------------------
\* UserCrawler.get_user_details and save_user_data
\* ------------------------------------------------------------------------
\* what a step of the user crawler outside the client leaves alone
UcFrame == <<restKeyVars, rotVars, restVars, ckVars, trVars, crawlVars>>

\* the locals of a fresh paginate_query(query, variables, path, max_pages=None)
EnterPaginateQuery ==
    /\ pgPc' = "loop" /\ max_pages' = NoneInt /\ has_next' = TRUE /\ cursor' = "None"
    /\ variables_after' = "None" /\ page_count' = 0 /\ consecutive_failures' = 0
    /\ all_results' = <<>>
    /\ page_after' = <<>> /\ sent_after' = "None" /\ clean_fetches' = 0
    /\ fail_run' = 0 /\ run_base' = 0 /\ resets' = 0 /\ pg_calls' = -1

\* the locals of a finished paginate_query call are gone
DropPaginate ==
    /\ pgPc' = "idle" /\ max_pages' = NoneInt /\ has_next' = TRUE /\ cursor' = "None"
    /\ variables_after' = "None" /\ page_count' = 0 /\ consecutive_failures' = 0
    /\ all_results' = <<>>
    /\ page_after' = <<>> /\ sent_after' = "None" /\ clean_fetches' = 0
    /\ fail_run' = 0 /\ run_base' = 0 /\ resets' = 0 /\ pg_calls' = -1

\* UserCrawler constructed again, for a later run: the tracker and the
\* manager are new, loaded from the files the earlier runs left; the two
\* clients are the ones passed in
UsersNewRun ==
    /\ ucPc \in {"idle", "saved"}
    /\ UserCrawlerInit
    /\ ucPc' = "idle" /\ uc_login' = "" /\ uc_ret' = "None" /\ uc_lists' = NoLists
    /\ uc_user_login' = "None"
    /\ uc_fetched' = FALSE /\ uc_detail' = "none" /\ uc_marked' = FALSE
    /\ uc_cut_pages' = 0
    /\ UNCHANGED <<eqVars, eqObs, pgVars, pgObs, rotVars, restVars, checkpoint_data,
                   ck_op, ck_last, trVars, managers_last, managers_failed, plVars,
                   gtVars, guVars>>

\* get_user_details(login), lines 171-182: return None for a processed
\* login, otherwise send the details query
GetUserDetails ==
    /\ ucPc \in {"idle", "saved"}
    /\ \E login \in Logins :
         /\ uc_login' = login
         /\ IF is_processed(processed_users, login)
            THEN /\ ucPc' = "returned" /\ uc_fetched' = FALSE
                 /\ UNCHANGED <<eqVars, eqObs>>
            ELSE /\ ucPc' = "details" /\ uc_fetched' = TRUE
                 /\ EnterExecuteQuery("details", DefaultMaxRetries)
    /\ uc_ret' = "None" /\ uc_lists' = NoLists /\ uc_user_login' = "None"
    /\ uc_detail' = "none" /\ uc_marked' = FALSE /\ uc_cut_pages' = 0
    /\ UNCHANGED <<processed_users, processed_users_file, keyVars, pgVars, pgObs, UcFrame>>

\* lines 184-195: the details query is over; return None when it gave no
\* user, otherwise go on to get_user_followers with the user of the answer,
\* whose 'login' member is what the server sent
UC_Details ==
    /\ ucPc = "details"
    /\ eqPc \in {"done", "raised"}
    /\ DropFrame
    /\ uc_detail' = detail_class(eqPc = "raised", eqRet)
    /\ IF user_absent(eqPc = "raised", eqRet)
       THEN /\ ucPc' = "returned" /\ uc_ret' = "None"
            /\ UNCHANGED <<uc_user_login, pgVars, pgObs>>
       ELSE /\ ucPc' = "followers" /\ uc_ret' = "user"
            /\ \E answered \in AnswerLogins(uc_login) : uc_user_login' = answered
            /\ EnterPaginateQuery
    /\ UNCHANGED <<processed_users, processed_users_file, uc_login, uc_lists, uc_fetched,
                   uc_marked, uc_cut_pages, keyVars, UcFrame>>

\* get_user_followers, get_user_following, get_user_starred_repos: the
\* paginate_query call of the list is over and the list is stored in
\* user_data, whatever way the pagination ended; the next list follows, or
\* get_user_details returns user_data (lines 194-213, 219-310)
UC_List ==
    /\ ucPc \in UserLists
    /\ pgPc \in {"done", "aborted", "raised"}
    /\ uc_lists' = [uc_lists EXCEPT ![ucPc] = list_outcome(pgPc)]
    /\ uc_cut_pages' = IF pgPc = "aborted" THEN uc_cut_pages + Len(all_results)
                       ELSE uc_cut_pages
    /\ IF next_list(ucPc) = "none"
       THEN /\ ucPc' = "returned"
            /\ DropPaginate
       ELSE /\ ucPc' = next_list(ucPc)
            /\ EnterPaginateQuery
    /\ UNCHANGED <<processed_users, processed_users_file, uc_login, uc_ret, uc_user_login,
                   uc_fetched, uc_detail, uc_marked, keyVars, eqVars, eqObs, UcFrame>>

\* save_user_data(user_data) with the value get_user_details returned
\* (lines 312-336): nothing for None; otherwise the rows are written and
\* user_data.get('login'), when it is truthy, is marked processed
SaveUserData ==
    /\ ucPc = "returned"
    /\ IF uc_ret = "None" \/ ~login_truthy(uc_user_login)
       THEN UNCHANGED <<processed_users, processed_users_file, uc_marked>>
       ELSE \E outcome \in WriteOutcomes,
               order \in py_list(processed_users \cup {uc_user_login}) :
              LET marked == mark_processed(processed_users, processed_users_file,
                                           uc_user_login, order, outcome) IN
              /\ processed_users' = marked.items
              /\ processed_users_file' = marked.file
              /\ uc_marked' = truthy_id(uc_user_login)
    /\ ucPc' = "saved"
    /\ UNCHANGED <<uc_login, uc_ret, uc_lists, uc_user_login, uc_fetched, uc_detail,
                   uc_cut_pages, keyVars, eqVars, eqObs, pgVars, pgObs, UcFrame>>

\* ------------------------------------------------------------------------
\* Specifications
\* ------------------------------------------------------------------------
EQ_Step == EQ_Exhausted \/ EQ_QuotaGate \/ EQ_Request

\* client code that rotates keys and runs single queries
Next == RotateKey \/ RestRotateKey \/ ExecuteQuery \/ EQ_Step

Spec == Init /\ [][Next]_vars

\* the GraphQL client alone, with every started step of execute_query
\* eventually taken (the call is synchronous and blocking: once started,
\* its next step runs)
NextEq == RotateKey \/ ExecuteQuery \/ EQ_Step

FairSpec == Init /\ [][NextEq]_vars /\ WF_vars(EQ_Step)

\* single queries followed answer by answer
NextTr == ExecuteQueryTraced \/ EQ_Step

SpecTr == Init /\ [][NextTr]_vars

\* client code that rotates the REST client's key and runs REST requests
RG_Step == RG_Request \/ RG_Exhausted

NextRest == RestRotateKey \/ RestGet \/ RG_Step

SpecRest == Init /\ [][NextRest]_vars

\* the REST client with every started step of get eventually taken (the call
\* is synchronous and blocking)
FairSpecRest == Init /\ [][NextRest]_vars /\ WF_vars(RG_Step)

\* client code that runs paginations
NextPg == PaginateQuery \/ PG_Fetch \/ PG_Return \/ EQ_Step

SpecPg == Init /\ [][NextPg]_vars

\* paginate_query with a finite max_pages, its execute_query calls counted,
\* with every started step of the call eventually taken (the call is
\* synchronous and blocking)
PG_Step == PG_Fetch \/ PG_Return \/ EQ_Step

NextPgCounted == PaginateQueryCounted \/ PG_Step

FairSpecPg == Init /\ [][NextPgCounted]_vars /\ WF_vars(PG_Step)

\* the checkpoint manager: construction, set and save_checkpoint
NextCk == CkConstruct \/ CkSet \/ CkSaveCheckpoint

SpecCk == Init /\ [][NextCk]_vars

\* two managers on the one file, their set calls interleaved
NextManagers == ReposNewRun \/ UsersNewRun \/ ManagerSet

SpecManagers == Init /\ [][NextManagers]_vars

\* the REST page loops, with the get and execute_query calls they make
NextPages ==
    \/ GetRepoContributors \/ RC_Page \/ RC_Item \/ RC_User
    \/ CollaborationCrawlerInit
    \/ GetUserRepoContributionsRest \/ CC_User \/ CC_Page \/ CC_Next
    \/ RG_Step \/ EQ_Step

SpecPages == Init /\ [][NextPages]_vars

\* get_top_repos and get_union_repos, with the calls they make, over the
\* runs of the crawler
GT_Step ==
    GT_Search \/ GT_SaveBasic \/ GT_Details \/ GT_Contributors \/ GT_SaveDetailed

GU_Step == GU_Starred \/ GU_Forked

NextTop == GetTopRepos \/ GetUnionRepos \/ TopNewRun \/ GT_Step \/ GU_Step \/ EQ_Step \/ RG_Step

SpecTop == Init /\ [][NextTop]_vars

\* every step of a started call is taken in the end
FairSpecTop ==
    Init /\ [][NextTop]_vars /\ WF_vars(GT_Step \/ GU_Step \/ EQ_Step \/ RG_Step)

\* the repository crawler writing its rows, over several runs, the iteration
\* taken in its two steps and the run interrupted at any point of the loop
NextReposInt == ReposNewRun \/ SaveReposToCsv \/ SR_Write \/ SR_Mark \/ ReposInterrupted

SpecReposInt == Init /\ [][NextReposInt]_vars

\* the user crawler: get_user_details followed by save_user_data, over
\* several runs
NextUsers ==
    \/ UsersNewRun \/ GetUserDetails \/ UC_Details \/ UC_List \/ SaveUserData
    \/ PG_Fetch \/ PG_Return \/ EQ_Step

SpecUsers == Init /\ [][NextUsers]_vars

\* ------------------------------------------------------------------------
\* Properties
\* ------------------------------------------------------------------------
PoolSize == Len(api_keys)

\* C1: on both clients the active index stays within 0 .. len(api_keys) - 1,
\* and every step that changes it, and every successful rotate_key call,
\* sets it to (old index + 1) mod len(api_keys).
C1_IndexInRangeAndCircular ==
    /\ [](/\ current_key_index \in 0..(PoolSize - 1)
          /\ rest_current_key_index \in 0..(PoolSize - 1))
    /\ [][/\ current_key_index' # current_key_index
               => current_key_index' = (current_key_index + 1) % PoolSize
          /\ rest_current_key_index' # rest_current_key_index
               => rest_current_key_index' = (rest_current_key_index + 1) % PoolSize
          /\ (rot_calls' >= 1 /\ rot_calls' # rot_calls /\ PoolSize >= 2)
               => current_key_index' = (current_key_index + 1) % PoolSize]_vars

\* C1 witness: both clients have rotated up to the last key of a pool of
\* at least two keys
C1_Witness ==
    /\ PoolSize >= 2
    /\ rot_calls = PoolSize - 1
    /\ current_key_index = PoolSize - 1
    /\ rest_current_key_index = PoolSize - 1

\* C2: with N >= 2 keys every rotate_key call of a run returns True and after
\* N consecutive calls the active key is the key that was active before the
\* first; with N = 1 every call returns False and the active key is unchanged.
C2_RotationIsCircular ==
    /\ (PoolSize >= 2 /\ rot_calls >= 1) => rot_ok
    /\ (PoolSize >= 2 /\ rot_calls = PoolSize) => current_key = api_keys[rot_start + 1]
    /\ (PoolSize = 1 /\ rot_calls >= 1) => (~rot_ok /\ current_key_index = rot_start)

\* C2 witness: three consecutive rotations on a pool of three keys that
\* started from the second key
C2_Witness ==
    /\ PoolSize = 3
    /\ rot_calls = 3
    /\ rot_start = 1
    /\ current_key_index = 1

\* an execute_query call is running
EqRunning == eqPc \in {"loop", "post"}

\* C3: execute_query sends at most max_retries data requests, returns None
\* when the retries are used up, and every call returns.
C3_ExecuteQueryTerminates ==
    /\ [](requests <= max_retries /\ retry_count <= max_retries)
    /\ []((eqPc = "done" /\ retry_count >= max_retries) => eqRet.none)
    /\ (EqRunning ~> eqPc = "done")

\* C3 witness: a call with the default max_retries that has sent five data
\* requests, none of them terminal, and returned None
C3_Witness ==
    /\ eqPc = "done"
    /\ max_retries = DefaultMaxRetries
    /\ requests = DefaultMaxRetries
    /\ retry_count = DefaultMaxRetries
    /\ eqRet.none

\* C4: no exception leaves execute_query: the call never ends raised, and
\* when it has ended its value is None or a decoded response body.
C4_ExecuteQueryNeverRaises ==
    /\ eqPc # "raised"
    /\ eqPc = "done" => (eqRet.none \/ eqRet.body \in Bodies)

\* C4 witness: a call that caught the TypeError raised by a null errors
\* member (or null body) and went on to return a response
C4_Witness ==
    /\ eqPc = "done"
    /\ last_exc = "TypeError"
    /\ ~eqRet.none

\* C5 (as claimed): paginate_query never raises, whatever execute_query
\* returns.
C5_PaginateNeverRaises == pgPc # "raised"

\* C6: paginate_query aborts exactly when three fetches in a row with the
\* same cursor gave no usable result; it then holds the pages it had before
\* them; a usable fetch brings the failure counter back to 0.
C6_BreakerExactlyAtThree ==
    /\ fail_run <= 3
    /\ pgPc = "aborted" <=> fail_run = 3
    /\ pgPc = "aborted" => Len(all_results) = run_base
    /\ fail_run = 0 => consecutive_failures = 0

\* C6 witness: an abort that follows a run of failures ended by a usable
\* page: the page is still held and the counter had gone back to 0
C6_Witness ==
    /\ pgPc = "aborted"
    /\ resets = 1
    /\ Len(all_results) = 1
    /\ consecutive_failures = 3

\* C7: with a finite max_pages the list of pages never has more than
\* max_pages elements.
C7_AtMostMaxPages == max_pages # NoneInt => Len(all_results) <= max_pages

\* C7 witness: a pagination stopped by max_pages = 1 although the page said
\* that more pages exist
C7_Witness ==
    /\ pgPc = "done"
    /\ max_pages = 1
    /\ Len(all_results) = 1
    /\ has_next

IsLastPage(page) == ~(page.nav = "pageInfo" /\ page.hasNextPage = "true")

\* C8: when an unbounded pagination has returned and every fetch gave a page,
\* the list holds one page per fetch, in order: every page but the last has
\* hasNextPage = true, the last has not, the first was requested with no
\* cursor and each later one with the endCursor of the page before it (when
\* that is non-empty); with two pages and endCursor "X" on the first, the
\* second was requested with "X".
C8_PagesInOrder ==
    (pgPc = "done" /\ max_pages = NoneInt /\ clean_fetches >= 0) =>
        /\ Len(all_results) = clean_fetches
        /\ Len(page_after) = clean_fetches
        /\ clean_fetches >= 1
        /\ IsLastPage(all_results[Len(all_results)])
        /\ \A i \in 1..(Len(all_results) - 1) :
             /\ ~IsLastPage(all_results[i])
             /\ Truthy(all_results[i].endCursor) => page_after[i + 1] = all_results[i].endCursor
        /\ page_after[1] = "None"
        /\ (clean_fetches = 2 /\ all_results[1].endCursor = "X") => page_after[2] = "X"

\* C8 witness: two pages, the first with endCursor "X", the second requested
\* with "X" and saying hasNextPage = false
C8_Witness ==
    /\ pgPc = "done"
    /\ max_pages = NoneInt
    /\ clean_fetches = 2
    /\ all_results[1].endCursor = "X"
    /\ page_after = <<"None", "X">>
    /\ all_results[2].hasNextPage = "false"

\* C9: one execute_query call takes at most one quota snapshot, and takes
\* it before any data request and before any retry.
C9_SnapshotOnlyBeforeFirstRequest ==
    /\ [](snapshots <= 1)
    /\ [][snapshots' = snapshots + 1 => (requests = 0 /\ retry_count = 0)]_vars

\* C9 witness: a call in its third retry that has taken one snapshot
C9_Witness ==
    /\ eqPc = "loop"
    /\ retry_count = 3
    /\ requests = 3
    /\ snapshots = 1

\* the first snapshot shows low quota
FirstSnapshotLow ==
    ~first_snapshot.remaining_null /\ first_snapshot.remaining < RATE_LIMIT_THRESHOLD

\* the key index the first data request must carry
C10_ExpectedKey == IF FirstSnapshotLow THEN (entry_key + 1) % PoolSize ELSE entry_key

\* C10: with at least two keys the first data request goes out with the
\* next key when the first snapshot is below RATE_LIMIT_THRESHOLD and with
\* the key of entry otherwise (also at exactly the threshold); it follows
\* exactly one snapshot, and after a rotation no retry has been consumed.
C10_RotateBeforeFirstRequest ==
    /\ []((PoolSize >= 2 /\ requests >= 1) => (first_key = C10_ExpectedKey /\ snapshots = 1))
    /\ []((PoolSize >= 2 /\ eqPc = "post") =>
            (retry_count = 0 /\ requests = 0 /\ current_key_index = C10_ExpectedKey))
    /\ [][(PoolSize >= 2 /\ requests = 0 /\ requests' = 1) =>
            /\ snapshots = 1
            /\ current_key_index = C10_ExpectedKey
            /\ FirstSnapshotLow => retry_count = 0]_vars

\* C10 witness: pool of two keys, entry with the second key, snapshot with
\* remaining 99: the first data request went out with the first key and the
\* call returned without a retry
C10_Witness ==
    /\ PoolSize = 2
    /\ eqPc = "done"
    /\ entry_key = 1
    /\ first_snapshot.remaining = RATE_LIMIT_THRESHOLD - 1
    /\ first_key = 0
    /\ requests = 1
    /\ retry_count = 0
    /\ snapshots = 1

\* a traced call on a single-key pool whose first snapshot showed low quota
C11_Case ==
    /\ eqCaller = "traced"
    /\ PoolSize = 1
    /\ snapshots = 1
    /\ FirstSnapshotLow
    /\ max_retries >= 1

\* C11 (as claimed): when the first snapshot shows low quota and rotate_key
\* fails (single-key pool), execute_query waits min(300, 2^0) = 1 second and
\* then still sends the data request, for every max_retries >= 1: the wait of
\* the gate is the quota wait of one second, and the call does not return
\* without having sent a data request.
C11_GateWaitsThenRequests ==
    /\ (C11_Case /\ eqPc = "loop" /\ requests = 0 /\ retry_count = 1)
         => last_wait = [class |-> "quota", secs |-> 1]
    /\ (C11_Case /\ eqPc = "done") => requests >= 1

\* the answer o is an HTTP 200 response with a JSON object that has an errors
\* list with at least one authorization/visibility marker
MarkerAnswer(o) ==
    /\ o.kind = "response" /\ o.status = 200 /\ o.json = "object"
    /\ o.body.errorsField = "list"
    /\ \E err \in o.body.errors :
         err.type = "FORBIDDEN" \/ err.message = "You do not have Permission to view this"

\* the step is a data request of a traced call
RequestStep == eqCaller = "traced" /\ requests' = requests + 1

\* C12: when a data request is answered with HTTP 200, errors with at least
\* one authorization/visibility marker and no data member, execute_query
\* returns None at once: the call has ended with that answer as its last, the
\* key index and retry_count are what they were before the request.
C12_MarkerWithoutDataReturnsNone ==
    /\ []((eqCaller = "traced" /\ MarkerAnswer(last_net) /\ last_net.body.data.field = "absent")
            => (eqPc = "done" /\ eqRet.none))
    /\ [][(RequestStep /\ MarkerAnswer(last_net') /\ last_net'.body.data.field = "absent")
            => /\ eqPc' = "done" /\ eqRet'.none
               /\ retry_count' = retry_count
               /\ current_key_index' = current_key_index]_vars

\* C12 witness: after one retry, the second answer carries a permission
\* message and a rate-limit error and no data; the call returned None with
\* one retry consumed and the first key still active
C12_Witness ==
    /\ eqCaller = "traced" /\ eqPc = "done"
    /\ PoolSize = 2
    /\ last_net.status = 200
    /\ last_net.body.errors = {ErrPermission, ErrRateLimit}
    /\ last_net.body.data.field = "absent"
    /\ requests = 2 /\ retry_count = 1
    /\ current_key_index = 0
    /\ eqRet.none

\* C13: when a data request is answered with HTTP 200, a data member and
\* errors with at least one authorization/visibility marker, execute_query
\* returns that response, data member unchanged, with this request as its
\* last: no retry is consumed and the key is not rotated.
C13_MarkerWithDataReturnsData ==
    /\ []((eqCaller = "traced" /\ MarkerAnswer(last_net) /\ last_net.body.data.field # "absent")
            => /\ eqPc = "done" /\ ~eqRet.none
               /\ eqRet.body = last_net.body
               /\ eqRet.body.data = last_net.body.data)
    /\ [][(RequestStep /\ MarkerAnswer(last_net') /\ last_net'.body.data.field # "absent")
            => /\ eqPc' = "done"
               /\ retry_count' = retry_count
               /\ current_key_index' = current_key_index]_vars

\* C13 witness: the first answer carries a FORBIDDEN error, a rate-limit
\* error and a data object; the call returned it after that one request
C13_Witness ==
    /\ eqCaller = "traced" /\ eqPc = "done"
    /\ PoolSize = 2
    /\ last_net.status = 200
    /\ last_net.body.errors = {ErrFORBIDDEN, ErrRateLimit}
    /\ last_net.body.data.field = "object"
    /\ requests = 1 /\ retry_count = 0
    /\ current_key_index = 0
    /\ eqRet = SomeResult(last_net.body)

\* the cap of a failure class: 30 s for timeouts (raised by the request or
\* reported in the errors of a 200 response) and connection errors, 60 s for
\* 5xx server errors, 300 s for quota exhaustion; the other classes have none
C14_HasCap(cls) == cls \in {"timeout", "timeout_errors", "connection", "server", "quota"}

C14_Cap(cls) ==
    IF cls \in {"timeout", "timeout_errors", "connection"} THEN 30
    ELSE IF cls = "server" THEN 60
    ELSE 300

\* C14 (as claimed): every wait of an execute_query call with max_retries = 5
\* is at most the cap of its failure class, the wait after a 200 response
\* whose errors mention 'timeout' included.
C14_WaitsWithinCaps ==
    (eqCaller = "traced" /\ max_retries = DefaultMaxRetries /\ C14_HasCap(last_wait.class))
        => last_wait.secs <= C14_Cap(last_wait.class)

\* C15 (as claimed): within one execute_query call, when two successive
\* passes wait in the same failure class, the later wait is not shorter than
\* the earlier one, whatever jitter is added on 5xx responses.
C15_WaitsNonDecreasing ==
    [][(/\ eqCaller = "traced" /\ eqCaller' = "traced"
        /\ retry_count' = retry_count + 1
        /\ last_wait.class # "none"
        /\ last_wait'.class = last_wait.class)
          => last_wait'.secs >= last_wait.secs]_vars

\* the latest answer of the traced call is a response with status st
LastStatus(st) == eqCaller = "traced" /\ last_net.kind = "response" /\ last_net.status = st

\* C16: a 401 answer with at least two keys rotates to the next key and
\* consumes one retry, the call goes on and its next data request is sent
\* with that next key; with a single key the call returns None with the 401
\* as its last answer.
C16_Unauthorized ==
    /\ [][(RequestStep /\ last_net'.kind = "response" /\ last_net'.status = 401) =>
            IF PoolSize >= 2
            THEN /\ eqPc' = "loop"
                 /\ retry_count' = retry_count + 1
                 /\ current_key_index' = (current_key_index + 1) % PoolSize
            ELSE /\ eqPc' = "done" /\ eqRet'.none
                 /\ retry_count' = retry_count
                 /\ current_key_index' = current_key_index]_vars
    /\ [][(RequestStep /\ LastStatus(401)) =>
            (PoolSize >= 2 /\ sent_key' = (sent_key + 1) % PoolSize)]_vars
    /\ []((LastStatus(401) /\ PoolSize = 1) => (eqPc = "done" /\ eqRet.none))

\* C16 witness: on a pool of three keys two 401 answers in a row, the second
\* to a request sent with the second key; the third key is now active
C16_Witness ==
    /\ LastStatus(401)
    /\ PoolSize = 3
    /\ first_snapshot.remaining = RATE_LIMIT_THRESHOLD
    /\ requests = 2 /\ retry_count = 2
    /\ sent_key = 1
    /\ current_key_index = 2
    /\ eqPc = "loop"

\* C20 (as claimed): execute_query never returns a response that carries
\* errors none of which is an authorization/visibility marker.
C20_OtherErrorsNeverReturned ==
    (eqCaller = "traced" /\ eqPc = "done" /\ ~eqRet.none
        /\ eqRet.body.errorsField = "list" /\ eqRet.body.errors # {})
    => \E err \in eqRet.body.errors :
         err.type = "FORBIDDEN" \/ err.message = "You do not have Permission to view this"

\* the step is a request of a running get call
RestRequestStep == rest_requests' = rest_requests + 1

\* the texts that contain 'rate limit' in some letter case
C17_RateLimitTexts ==
    {"API rate limit exceeded for user ID 1",
     "You have exceeded a secondary Rate Limit",
     "RATE LIMIT EXCEEDED"}

\* the answer o is a 403 whose text contains 'rate limit' in some letter case
C17_RateLimited(o) == o.kind = "response" /\ o.status = 403 /\ o.text \in C17_RateLimitTexts

\* the answer o is a 403 whose text does not contain it
C17_Denied(o) == o.kind = "response" /\ o.status = 403 /\ o.text \notin C17_RateLimitTexts

\* C17: in GitHubRESTClient.get a 403 answer whose text contains 'rate limit'
\* (any letter case) rotates to the next key of the pool and the call goes
\* on, its next request being sent with that key; a 403 answer without the
\* substring ends the call with None, the key unchanged, and is the last
\* answer of the call.
C17_RestForbidden ==
    /\ [][(RestRequestStep /\ C17_RateLimited(rest_last')) =>
            /\ restPc' = "loop"
            /\ rest_retry' = rest_retry + 1
            /\ rest_current_key_index' = (rest_current_key_index + 1) % PoolSize]_vars
    /\ [][(RestRequestStep /\ C17_RateLimited(rest_last)) =>
            rest_sent_key' = (rest_sent_key + 1) % PoolSize]_vars
    /\ [][(RestRequestStep /\ C17_Denied(rest_last')) =>
            /\ restPc' = "done" /\ rest_ret' = "None"
            /\ rest_retry' = rest_retry
            /\ rest_current_key_index' = rest_current_key_index]_vars
    /\ [](C17_Denied(rest_last) => (restPc = "done" /\ rest_ret = "None"))

\* C17 witness: on a pool of two keys a 403 with an upper-case 'RATE LIMIT'
\* text answered the first request, the second request went out with the
\* second key and was answered with a 403 without the substring: the call
\* returned None with the second key still active
C17_Witness ==
    /\ PoolSize = 2
    /\ restPc = "done" /\ rest_ret = "None"
    /\ rest_requests = 2 /\ rest_retry = 1
    /\ rest_sent_key = 1 /\ rest_current_key_index = 1
    /\ rest_last = RestResponse(403, "Rate-limit policy does not apply", "none")

\* C18: a 404 answer is never retried: it ends get with None, the key
\* unchanged and no retry consumed; it is the last answer of the call, which
\* has sent one request more than it consumed retries (exactly one request
\* when the 404 answers the first).
C18_RestNotFound ==
    /\ [][(RestRequestStep /\ rest_last'.status = 404) =>
            /\ restPc' = "done" /\ rest_ret' = "None"
            /\ rest_retry' = rest_retry
            /\ rest_current_key_index' = rest_current_key_index]_vars
    /\ [](rest_last.status = 404 =>
            /\ restPc = "done" /\ rest_ret = "None"
            /\ rest_requests = rest_retry + 1)

\* C18 witness: the first answer of a call made with the second of three
\* keys is a 404; the call has returned None after one request
C18_Witness ==
    /\ PoolSize = 3
    /\ rest_last.status = 404
    /\ restPc = "done" /\ rest_ret = "None"
    /\ rest_requests = 1 /\ rest_retry = 0
    /\ rest_current_key_index = 1 /\ rest_sent_key = 1
    /\ rest_max_retries = RestDefaultMaxRetries

\* C19 (as claimed): a 4xx answer other than 401, 403 and 404 is not retried:
\* neither GitHubRESTClient.get nor execute_query sends another request
\* after such an answer.
C19_OtherClientErrorNotRetried ==
    [][/\ RestRequestStep => rest_last.status \notin {400, 422}
       /\ RequestStep => ~(last_net.kind = "response" /\ last_net.status \in {400, 422})]_vars

\* the answer o got classified as rate-limited: HTTP 403, or HTTP 200 with an
\* errors list without authorization marker in which an error mentions
\* 'rate limit'
C21_RateLimited(o) ==
    /\ o.kind = "response"
    /\ \/ o.status = 403
       \/ /\ o.status = 200 /\ o.json = "object" /\ o.body.errorsField = "list"
          /\ ~MarkerAnswer(o)
          /\ \E err \in o.body.errors : err.message = "API rate limit exceeded"

\* C21: with at least two keys a rate-limited answer makes execute_query
\* rotate to the next key and consume one retry without any backoff wait;
\* the call goes on and its next data request is sent with the next key.
C21_RateLimitedRotatesWithoutWait ==
    /\ [][(RequestStep /\ C21_RateLimited(last_net') /\ PoolSize >= 2) =>
            /\ eqPc' = "loop"
            /\ retry_count' = retry_count + 1
            /\ current_key_index' = (current_key_index + 1) % PoolSize
            /\ last_wait' = NoWait]_vars
    /\ [][(RequestStep /\ C21_RateLimited(last_net) /\ PoolSize >= 2) =>
            (sent_key' = (sent_key + 1) % PoolSize /\ last_wait = NoWait)]_vars

\* C21 witness: on a pool of two keys a 403 answered the request sent with
\* the first key and a 200 with a rate-limit error the request sent with the
\* second key; the first key is active again and no wait was taken
C21_Witness ==
    /\ eqCaller = "traced" /\ eqPc = "loop"
    /\ PoolSize = 2
    /\ first_snapshot.remaining = RATE_LIMIT_THRESHOLD + 1
    /\ requests = 2 /\ retry_count = 2
    /\ last_net.status = 200 /\ last_net.body.errors = {ErrRateLimit, ErrOther}
    /\ sent_key = 1 /\ current_key_index = 0
    /\ last_wait = NoWait

\* the quota query raised, was answered with a non-200 status or with a
\* body that has no data.rateLimit object
C22_QuotaFailed(q) ==
    q.shape \in {"raise", "status", "invalid_json", "json_null", "no_data",
                 "data_null", "no_rateLimit", "rateLimit_null"}

\* C22: when the quota query fails in one of these ways the snapshot is
\* remaining = 0 and the gate takes the low-quota path: with at least two
\* keys it rotates to the next key before the data request, with a single
\* key it takes the quota wait and consumes a retry; in neither case does it
\* go on to the data request with the key of entry as if quota were left.
C22_FailedQuotaIsLowQuota ==
    /\ []((eqCaller = "traced" /\ snapshots = 1 /\ C22_QuotaFailed(first_quota))
            => first_snapshot = [remaining_null |-> FALSE, remaining |-> 0])
    /\ [][(eqCaller = "traced" /\ snapshots' = snapshots + 1 /\ C22_QuotaFailed(first_quota')) =>
            IF PoolSize >= 2
            THEN /\ eqPc' = "post" /\ retry_count' = retry_count
                 /\ current_key_index' = (current_key_index + 1) % PoolSize
            ELSE /\ eqPc' = "loop" /\ retry_count' = retry_count + 1
                 /\ requests' = requests
                 /\ last_wait' = [class |-> "quota", secs |-> 1]]_vars

\* C22 witness: the quota query was answered with a body without data; on a
\* pool of three keys the data request went out with the second key
C22_Witness ==
    /\ eqCaller = "traced"
    /\ PoolSize = 3
    /\ first_quota.shape = "no_data"
    /\ snapshots = 1 /\ first_snapshot.remaining = 0
    /\ requests = 1 /\ sent_key = 1

\* C26: when a fetch of paginate_query gives no usable result and the
\* breaker does not trip, the page list, page_count and the cursor are
\* unchanged, the loop goes on, and the next fetch is issued with the same
\* 'after' as the failed one.
C26_FailureKeepsCursorAndPages ==
    /\ [][(fail_run' = fail_run + 1 /\ pgPc' # "aborted") =>
            /\ pgPc' = "loop"
            /\ all_results' = all_results
            /\ page_count' = page_count
            /\ cursor' = cursor /\ variables_after' = variables_after
            /\ loop_continues(has_next', max_pages', page_count')]_vars
    /\ [][(pgPc = "loop" /\ pgPc' = "fetching" /\ fail_run >= 1) =>
            (sent_after' = sent_after /\ fail_run' = fail_run)]_vars

\* C26 witness: after one page with endCursor "X" two fetches with 'after'
\* = "X" failed and the third is under way with the same 'after'
C26_Witness ==
    /\ pgPc = "fetching"
    /\ fail_run = 2 /\ consecutive_failures = 2
    /\ sent_after = "X"
    /\ Len(all_results) = 1 /\ page_count = 1
    /\ all_results[1].endCursor = "X"

\* the page says that another page follows
C28_HasNext(page) == page.nav = "pageInfo" /\ page.hasNextPage = "true"

\* C28: with a finite max_pages = M and every fetch giving a page with
\* hasNextPage = true, paginate_query returns after exactly M fetches with
\* exactly M pages, and has not fetched more than M times on the way.
C28_StopsAtMaxPages ==
    (/\ max_pages # NoneInt /\ clean_fetches >= 0
     /\ \A i \in 1..Len(all_results) : C28_HasNext(all_results[i]))
    => /\ clean_fetches <= max_pages
       /\ Len(all_results) = clean_fetches
       /\ pgPc = "done" => (clean_fetches = max_pages /\ Len(all_results) = max_pages)

\* C28 witness: max_pages = 2, two pages that both say hasNextPage = true,
\* and the call has returned
C28_Witness ==
    /\ pgPc = "done"
    /\ max_pages = 2
    /\ clean_fetches = 2
    /\ Len(all_results) = 2
    /\ C28_HasNext(all_results[1]) /\ C28_HasNext(all_results[2])
    /\ has_next

\* C27 (as claimed): the first fetch of paginate_query carries no cursor,
\* and every fetch issued after a page carries the endCursor of the most
\* recent page as its 'after' variable, also when that endCursor is null or
\* empty.
C27_FetchCarriesLatestEndCursor ==
    pgPc = "fetching" =>
        IF Len(all_results) = 0
        THEN sent_after = "None"
        ELSE sent_after = all_results[Len(all_results)].endCursor

\* C29 (as claimed): on a single-key pool a 401 answer ends get with None:
\* it is the last answer of the call, and no request is sent after it.
C29_RestUnauthorizedSingleKeyEnds ==
    [][(RestRequestStep /\ PoolSize = 1)
         => ~(rest_last.kind = "response" /\ rest_last.status = 401)]_vars

\* ------------------------------------------------------------------------
\* C25: after every CheckpointManager mutation (set or save_checkpoint) whose
\* file write succeeds, the file holds the JSON text of checkpoint_data,
\* get(key) returns the value last stored under each key, and
\* load_checkpoint on the file gives exactly checkpoint_data; a manager
\* constructed next starts with that content
\* ------------------------------------------------------------------------
C25_Flushed == ck_op.op \in {"set", "save_checkpoint"} /\ ck_op.write = "ok"

C25_PersistedEqualsMemory ==
    /\ [](C25_Flushed =>
            /\ checkpoint_file = [state |-> "json", text |-> json_dump(checkpoint_data)]
            /\ \A k \in DOMAIN ck_last : ck_get(checkpoint_data, k, PyNone) = ck_last[k]
            /\ load_checkpoint(checkpoint_file) = checkpoint_data)
    /\ [][(C25_Flushed /\ ck_op'.op = "init") => checkpoint_data' = checkpoint_data]_vars

C25_Witness ==
    /\ ck_op = [op |-> "set", write |-> "ok"]
    /\ DOMAIN checkpoint_data = CkKeys
    /\ DOMAIN ck_last = {"union_repos"}
    /\ checkpoint_data["steps_completed"].py = "str"
    /\ checkpoint_data["union_repos"].py = "list"

\* ------------------------------------------------------------------------
\* C24: over any sequence of save_repos_to_csv calls, also across runs in
\* which the tracker is constructed again on its file, at most one row is
\* written for each non-empty repository id
\* ------------------------------------------------------------------------
C24_AtMostOneRowPerId ==
    \A id \in RepoIds : truthy_id(id) => repos_csv[id] <= 1

\* ------------------------------------------------------------------------
\* C23: a user whose details query gave an absent result (execute_query
\* returned None, a body without data, or a null user) is not added to the
\* processed users by get_user_details followed by save_user_data:
\* is_processed(login) stays false in this run and for a tracker constructed
\* on the file afterwards, and get_user_details of an unprocessed login sends
\* the details query
\* ------------------------------------------------------------------------
C23_Absent ==
    uc_detail \in {"None", "raised", "no_data", "data_null", "key_missing", "node_null",
                   "user_empty"}

C23_AbsentUserNotProcessed ==
    /\ [](C23_Absent =>
            /\ ~uc_marked
            /\ ~is_processed(processed_users, uc_login)
            /\ ~is_processed(load_processed(processed_users_file), uc_login))
    /\ [][(ucPc \in {"idle", "saved"} /\ ucPc' \in {"details", "returned"}
           /\ ~is_processed(processed_users, uc_login'))
          => (ucPc' = "details" /\ uc_fetched')]_vars

C23_Witness ==
    /\ ucPc = "saved" /\ uc_fetched /\ uc_detail = "node_null"
    /\ uc_login = "octocat" /\ uc_ret = "None"
    /\ processed_users = {}

\* ------------------------------------------------------------------------
\* C30: a user is marked processed only if the follower, following and
\* starred-repository paginations run for that user all ended normally,
\* never after one of them was cut short by the circuit breaker and gave a
\* partial list (the pages collected before the breaker tripped); stated
\* for the users none of whose paginations raised
\* ------------------------------------------------------------------------
C30_NotMarkedAfterCutPagination ==
    (uc_marked /\ \A l \in UserLists : uc_lists[l] # "raised")
    => ~(uc_cut_pages >= 1 /\ \E l \in UserLists : uc_lists[l] = "cut")

\* ------------------------------------------------------------------------
\* C38: in execute_query the authorization-marker class comes before the
\* rate-limit and timeout classes: a 200 answer whose errors hold a marker
\* together with an error mentioning 'rate limit' or 'timeout' ends the call
\* with that request (the body is returned, None when it has no data
\* member); the key index and retry_count stay as they were and no wait is
\* made
\* ------------------------------------------------------------------------
C38_MixedAnswer(o) ==
    /\ MarkerAnswer(o)
    /\ \E err \in o.body.errors :
         err.message \in {"API rate limit exceeded", "Timeout while resolving the query"}

C38_MarkerBeforeRateLimitAndTimeout ==
    [][(RequestStep /\ C38_MixedAnswer(last_net'))
         => /\ eqPc' = "done"
            /\ eqRet' = IF last_net'.body.data.field = "absent" THEN NoneResult
                        ELSE SomeResult(last_net'.body)
            /\ current_key_index' = current_key_index
            /\ retry_count' = retry_count
            /\ last_wait' = NoWait]_vars

C38_Witness ==
    /\ eqCaller = "traced" /\ eqPc = "done" /\ PoolSize = 3
    /\ last_net.status = 200
    /\ last_net.body.errors = {ErrFORBIDDEN, ErrTimeout}
    /\ last_net.body.data.field = "null"
    /\ eqRet = SomeResult(last_net.body)
    /\ requests = 1 /\ retry_count = 0 /\ current_key_index = 0

\* ------------------------------------------------------------------------
\* C39: during execute_query the active key index changes only by a
\* rotate_key step (to the next index of the pool), and only in the quota
\* gate with a low first snapshot or after a data request answered with 401,
\* 403 or a rate-limit error; the gate with a snapshot that is not low and
\* the answers of the other classes (a returned body, an expected partial
\* error, 5xx, a timeout, a connection error) leave it as it was
\* ------------------------------------------------------------------------
C39_GateStep == eqCaller = "traced" /\ snapshots' = snapshots + 1

C39_RotatingAnswer(o) ==
    /\ o.kind = "response"
    /\ \/ o.status \in {401, 403}
       \/ /\ o.status = 200 /\ o.json = "object" /\ o.body.errorsField = "list"
          /\ \E err \in o.body.errors : err.message = "API rate limit exceeded"

C39_KeyChangesOnlyByRotation ==
    [][/\ current_key_index' # current_key_index
          => /\ current_key_index' = (current_key_index + 1) % PoolSize
             /\ \/ C39_GateStep /\ first_snapshot'.remaining < RATE_LIMIT_THRESHOLD
                \/ RequestStep /\ C39_RotatingAnswer(last_net')
       /\ (C39_GateStep /\ first_snapshot'.remaining >= RATE_LIMIT_THRESHOLD)
          => current_key_index' = current_key_index
       /\ (RequestStep /\ ~C39_RotatingAnswer(last_net'))
          => current_key_index' = current_key_index]_vars

C39_Witness ==
    /\ eqCaller = "traced" /\ eqPc = "done" /\ PoolSize = 3
    /\ first_snapshot.remaining = RATE_LIMIT_THRESHOLD
    /\ requests = 3 /\ retry_count = 2
    /\ last_net.status = 200 /\ last_net.body.errors = {ErrFORBIDDEN}
    /\ last_net.body.data.field = "object"
    /\ current_key_index = 0 /\ ~eqRet.none

\* ------------------------------------------------------------------------
\* C37: GitHubRESTClient.get sends at most max_retries requests and never
\* raises; every request either ends the call (a returned body or None) or
\* uses up one iteration, the call returns None when the iterations are
\* used up, and every started call returns
\* ------------------------------------------------------------------------
C37_RestGetTerminates ==
    /\ [](rest_requests <= rest_max_retries /\ rest_retry <= rest_max_retries)
    /\ [](restPc # "raised")
    /\ []((restPc = "done" /\ rest_retry >= rest_max_retries /\ rest_requests = rest_retry)
            => rest_ret = "None")
    /\ [][RestRequestStep => (restPc' = "done" \/ rest_retry' = rest_retry + 1)]_vars
    /\ (restPc = "loop" ~> restPc = "done")

C37_Witness ==
    /\ restPc = "done" /\ rest_max_retries = RestDefaultMaxRetries
    /\ rest_requests = RestDefaultMaxRetries /\ rest_retry = RestDefaultMaxRetries
    /\ rest_last.kind = "raise" /\ rest_ret = "None"

\* ------------------------------------------------------------------------
\* C36: paginate_query with a finite max_pages = M ends after at most 3 * M
\* calls of execute_query: every call that returns adds a page or adds one
\* to consecutive_failures, at most two failures have been counted while the
\* loop is running, no call is made with M pages counted, and every started
\* call ends (by returning the pages, or by the exception of C5)
\* ------------------------------------------------------------------------
C36_Counted == pg_calls >= 0 /\ max_pages # NoneInt

C36_Running == C36_Counted /\ pgPc \in {"loop", "fetching"}

C36_AtMostThreeCallsPerPage ==
    /\ [](C36_Counted => pg_calls <= 3 * max_pages)
    /\ [](C36_Running => (consecutive_failures <= 2 /\ page_count = Len(all_results)))
    /\ []((C36_Counted /\ pgPc = "fetching") => page_count < max_pages)
    /\ [][(C36_Counted /\ pgPc = "fetching" /\ pgPc' # "fetching")
            => \/ Len(all_results') = Len(all_results) + 1 /\ consecutive_failures' = 0
               \/ /\ consecutive_failures' = consecutive_failures + 1
                  /\ all_results' = all_results]_vars
    /\ (C36_Running ~> pgPc \in {"done", "aborted", "raised"})

C36_Witness ==
    /\ pg_calls = 3 * MaxPages /\ max_pages = MaxPages
    /\ pgPc = "done" /\ Len(all_results) = MaxPages /\ resets = MaxPages

\* ------------------------------------------------------------------------
\* C33: in save_repos_to_csv an id enters the processed set only after
\* write_row has been called for it: every id of the set in memory, and of
\* the set a tracker would load from the file, has had its write attempted;
\* a run interrupted between write_row and mark_processed leaves the id
\* unprocessed for the next run, which calls write_row for it again
\* ------------------------------------------------------------------------
C33_MarkedOnlyAfterWrite ==
    /\ [](processed_repos \subseteq repos_attempted
          /\ load_processed(processed_repos_file) \subseteq repos_attempted)
    /\ [][(srPc = "written" /\ srPc' = "idle")
            => ~is_processed(processed_repos', Head(sr_todo).id)]_vars
    /\ [][(srPc = "loop" /\ ~is_processed(processed_repos, Head(sr_todo).id)
           /\ ~Head(sr_todo).malformed /\ srPc' # "idle")
            => (srPc' = "written" /\ Head(sr_todo).id \in repos_attempted')]_vars

C33_Witness ==
    /\ "R1" \in repos_cut /\ ~repos_save_failed
    /\ repos_csv["R1"] = 2 /\ srPc = "done"
    /\ processed_repos = {"R1"}

\* ------------------------------------------------------------------------
\* C35: with two CheckpointManager instances on the same file, after any
\* interleaving of their set calls, none of whose writes failed, every key
\* set through either instance is in the file with the value of its last set
\* ------------------------------------------------------------------------
C35_NoSetLost ==
    ~managers_failed =>
        \A k \in DOMAIN managers_last :
            ck_get(load_checkpoint(checkpoint_file), k, PyNone) = managers_last[k]

\* ------------------------------------------------------------------------
\* C32: the REST page loops request the pages 1, 2, 3, ... in order, request
\* no page after an absent, empty or short one, are left only after such a
\* page, and the list or count they have built when they are left covers
\* every item of the pages they fetched (for get_repo_contributors: every
\* item above MIN_COMMITS)
\* ------------------------------------------------------------------------
C32_LoopLeft ==
    \/ plPc = "ended"
    \/ (plPc = "done" /\ plKind = "contributors" /\ pl_asked # <<>>)

C32_PagesInOrderAndCovered ==
    /\ \A i \in DOMAIN pl_asked : pl_asked[i] = i
    /\ ~pl_after_short
    /\ C32_LoopLeft => (pl_last \in {"absent", "empty", "short"} /\ pl_total = pl_eligible)

\* ------------------------------------------------------------------------
\* C31: a get_top_repos call whose execute_query calls all return None
\* comes to its end: a call in its search loop returns in the end, unless
\* some execute_query call of the loop gives a result
\* ------------------------------------------------------------------------
C31_TerminatesWhenAbsent == (gtPc = "search") ~> (gtPc = "done" \/ ~gt_all_none)

\* ------------------------------------------------------------------------
\* C34: a get_union_repos call that finds a non-empty list under
\* 'union_repos' returns that list and has made no request and no write of
\* the checkpoint; a get_top_repos call that finds a non-empty list under
\* one of the keys of its sort key returns the first such list and has made
\* no request
\* ------------------------------------------------------------------------
C34_NonEmptyList(value) == value.py = "list" /\ value.v > 0

C34_CachedListsReturned ==
    /\ C34_NonEmptyList(gu_entry) =>
         (guPc = "done" /\ gu_ret = gu_entry /\ ~gu_requested /\ ~gu_wrote)
    /\ (\E i \in 1..3 : C34_NonEmptyList(gt_entry[i])) =>
         /\ gtPc = "done" /\ ~gt_requested
         /\ \E i \in 1..3 :
              /\ gt_ret = gt_entry[i] /\ C34_NonEmptyList(gt_entry[i])
              /\ \A j \in 1..(i - 1) : ~C34_NonEmptyList(gt_entry[j])

C34_Witness ==
    /\ C34_NonEmptyList(gu_entry) /\ guPc = "done" /\ gu_ret.v = 2
    /\ C34_NonEmptyList(gt_entry[3]) /\ ~C34_NonEmptyList(gt_entry[1])
    /\ gtPc = "done" /\ gt_ret = gt_entry[3]

============================================================================
